---- MODULE Spec2Model ----
(***************************************************************************)
(* Campaign-agent: the browser session of src/App.tsx (AppInner), the      *)
(* hosted tables it reads and writes through src/unnamed/part_000          *)
(* (services/supabaseService), the browser's session storage, and the      *)
(* REST client of src/services/apiService.ts.                              *)
(*                                                                         *)
(* One step of the model is one run-to-completion piece of JavaScript: a   *)
(* handler up to its first await, or the continuation of an await up to    *)
(* the next one, together with the re-render and the effects it causes.    *)
(***************************************************************************)
EXTENDS Integers, Sequences, FiniteSets, TLC

\* ------------------------------------------------------------------ bounds
MaxInitWs    == 2   \* workspace rows the store may hold before the session starts
MaxCreated   == 2   \* workspace rows inserted during a run (default + created)
MaxCampaigns == 2   \* campaigns generated during a run
MaxOps       == 3   \* user gestures (setContext, edits, deletes, ...) during a run
MaxSaves     == 3   \* saves issued by the tabs of the two-session specification
MaxEdge      == 1   \* requests the edge functions handle at one time
MaxEmails    == 2   \* emails of an exported campaign
MaxDay       == 1   \* the largest dayOffset of an exported email
MaxCalls     == 2   \* sequential calls of getOrCreateDefaultWorkspace

\* ------------------------------------------------------------- JS values
Undef == "undefined"                  \* a field that is absent from an object
Falsy(v) == v \in {Undef, ""}         \* what `||` and `!` treat as false
OrElse(v, d) == IF Falsy(v) THEN d ELSE v     \* v || d

NoUser == "anonymous"                 \* user === null
User1  == "u1"
NoWs   == 0                           \* activeWorkspaceId === null

\* A profile (FullContext) is abridged to two representative text fields:
\*   name     brand.name, one of the two fields both hasData tests read
\*   tagline  brand.tagline, read by workspaceToContext's hasData test only
\* A stored *_context column holds the same fields, Undef where the JSON
\* object has no such key ({} is [name |-> Undef, tagline |-> Undef]).
NoContext == [isNull |-> TRUE]        \* context === null
EmptyJson == [name |-> Undef, tagline |-> Undef]     \* {}
IsNull(c) == "isNull" \in DOMAIN c

ProfileA == [name |-> "Acme", tagline |-> "",  isComplete |-> TRUE]
ProfileB == [name |-> "Bolt", tagline |-> "t", isComplete |-> TRUE]
Profiles == {ProfileA, ProfileB}

migrateContext(ctx) ==
  [name       |-> OrElse(ctx.name, ""),
   tagline    |-> OrElse(ctx.tagline, ""),
   isComplete |-> IF "isComplete" \in DOMAIN ctx THEN ctx.isComplete ELSE TRUE]

\* workspaceToContext: null unless some section has meaningful data
workspaceToContext(w) ==
  LET b == w.brand_context
      hasData == ~Falsy(b.name) \/ ~Falsy(b.tagline)
  IN  IF ~hasData THEN NoContext
      ELSE [name |-> b.name, tagline |-> b.tagline, isComplete |-> TRUE]

\* the sync half of loadWorkspaceData: the profile it puts in memory
ProfileOf(w) ==
  LET ctx == workspaceToContext(w)
  IN  IF IsNull(ctx) THEN NoContext ELSE migrateContext(ctx)

\* ------------------------------------------------------------ sequences
Range(s) == {s[i] : i \in 1..Len(s)}

RECURSIVE SortByKey(_, _)
\* the rows of S as a list, ascending in key[row] (keys are distinct in S)
SortByKey(S, key) ==
  IF S = {} THEN <<>>
  ELSE LET m == CHOOSE x \in S : \A y \in S : key[x] <= key[y]
       IN  <<m>> \o SortByKey(S \ {m}, key)

SortBy(S, k(_)) == SortByKey(S, [x \in S |-> k(x)])

Reverse(s) == [i \in 1..Len(s) |-> s[Len(s) + 1 - i]]
MapSeq(s, f(_)) == [i \in 1..Len(s) |-> f(s[i])]

\* ------------------------------------------------------------ variables
VARIABLES
  authLoading, user,                 \* useAuth: loading, user
  context, campaigns, dataLoading,   \* AppInner useState
  workspaces, activeWorkspaceId,
  loadedForUserId,                   \* AppInner useRef
  timerArmed,                        \* the safety setTimeout is pending
  analyzedData,                      \* Onboarding useState
  sessionStore,                      \* sessionStorage['emailAgentState']
  unloaded,                          \* what sessionStorage held when the page was last left
  dbWorkspaces, dbCampaigns,         \* hosted tables: sets of rows
  dbClock,                           \* the store's row counter (ids, created_at)
  clock,                             \* Date.now() of the browser
  tasks,                             \* async functions suspended at an await
  requests,                          \* fire-and-forget writes on their way to the store
  ops,                               \* user gestures so far
  api,                               \* apiService: the call being made and its outcome
  tabs, saveLog,                     \* two sessions of one user; saves in arrival order
  profiles, edge,                    \* table profiles; requests the edge functions handle
  calc                               \* a pure function's input and, once applied, its result

vars == <<authLoading, user, context, campaigns, dataLoading, workspaces,
          activeWorkspaceId, loadedForUserId, timerArmed, analyzedData,
          sessionStore, unloaded, dbWorkspaces, dbCampaigns, dbClock, clock,
          tasks, requests, ops, api, tabs, saveLog, profiles, edge, calc>>

authVars  == <<authLoading, user>>
storeVars == <<dbWorkspaces, dbCampaigns, dbClock>>
sideVars  == <<api, tabs, saveLog, profiles, edge, calc>>
\* the browser session and the tables it uses
appVars   == <<authLoading, user, context, campaigns, dataLoading, workspaces,
               activeWorkspaceId, loadedForUserId, timerArmed, analyzedData,
               sessionStore, unloaded, dbWorkspaces, dbCampaigns, dbClock, clock,
               tasks, requests, ops>>

\* ------------------------------------------------------ the hosted tables
WsRow(id, isDefault, createdAt, wname, brand) ==
  [id |-> id, user_id |-> User1, name |-> wname, is_default |-> isDefault,
   created_at |-> createdAt, brand_context |-> brand]

\* insert into workspaces: the store assigns id and created_at
InsertedWs(isDefault, wname) == WsRow(dbClock + 1, isDefault, dbClock + 1, wname, EmptyJson)

CreatedAt(w) == w.created_at
\* ORDER BY is_default DESC, created_at ASC
ListKey(w) == (IF w.is_default THEN 0 ELSE 1000) + w.created_at

\* .eq('user_id', u).eq('is_default', true).order('created_at', asc)
DefaultRows(u) ==
  SortBy({w \in dbWorkspaces : w.user_id = u /\ w.is_default}, CreatedAt)

\* listWorkspaces
listWorkspaces(u) == SortBy({w \in dbWorkspaces : w.user_id = u}, ListKey)

\* a campaigns row as an object: the columns of the upsert
CampaignCols == {"id", "user_id", "workspace_id", "name", "emails"}

\* a payload that leaves the emails column out
saveCampaignWithoutEmails(u, wsId, c) ==
  [id |-> c.id, user_id |-> u, workspace_id |-> wsId, name |-> c.name]

\* saveCampaign: the payload it upserts
saveCampaignPayload(u, wsId, c) ==
  [id |-> c.id, user_id |-> u, workspace_id |-> wsId, name |-> c.name, emails |-> c.emails]

\* upsert on the primary key id: an existing row keeps the columns the payload
\* does not name, a new row takes the table defaults for them
Upsert(rows, payload) ==
  LET old  == {r \in rows : r.id = payload.id}
      base == IF old = {} THEN [id |-> payload.id, user_id |-> NoUser, workspace_id |-> NoWs,
                                name |-> "", emails |-> ""]
              ELSE CHOOSE r \in old : TRUE
      new  == [col \in CampaignCols |->
                 IF col \in DOMAIN payload THEN payload[col] ELSE base[col]]
  IN  (rows \ old) \cup {new}

CampaignId(c) == c.id
\* loadCampaigns: the user's rows of one workspace, newest first, as Campaign objects
loadCampaigns(u, wsId) ==
  LET rows == {r \in dbCampaigns : r.user_id = u /\ r.workspace_id = wsId}
      toCampaign(r) == [id |-> r.id, name |-> r.name, emails |-> r.emails]
  IN  MapSeq(Reverse(SortBy(rows, CampaignId)), toCampaign)

\* ------------------------------------------------------------ the effects
\* AppInner's effects run after every render whose dependencies changed; a step
\* of the model ends with them.

\* App.tsx 214-221: a timer is pending exactly while dataLoading is true
\* a timer armed at the mount only, which no later dataLoading re-arms
SafetyTimerAtMountOnly == timerArmed' = (timerArmed /\ dataLoading')
SafetyTimerEffect == timerArmed' = dataLoading'

NoItem == [absent |-> TRUE]           \* sessionStorage.getItem(...) === null
HasItem(s) == "absent" \notin DOMAIN s

\* App.tsx 306-310, dependencies [context, campaigns, userId]
SaveEffect ==
  sessionStore' =
    IF /\ <<context', campaigns', user'>> # <<context, campaigns, user>>
       /\ loadedForUserId' = NoUser /\ user' = NoUser
    THEN [context |-> context', campaigns |-> campaigns']
    ELSE sessionStore

\* Onboarding.tsx 51-57: analyzedData follows userContext when it changes
OnboardingEffect(ad) ==
  analyzedData' = IF context' # context THEN context' ELSE ad

Effects == SafetyTimerEffect /\ SaveEffect /\ OnboardingEffect(analyzedData)

\* an async function suspended in the initial load of App.tsx 260-281
InitTask(u, pc, canonical, dups, clean) ==
  [kind |-> "init", user |-> u, pc |-> pc, canonical |-> canonical, dups |-> dups,
   clean |-> clean]
\* loadWorkspaceData suspended at `await loadCampaigns`, and who called it
LoadTask(u, w, origin, clean) ==
  [kind |-> "load", user |-> u, ws |-> w, origin |-> origin, clean |-> clean]

\* App.tsx 249-281: the data-load effect for a signed-in user
DataEffectUser(u) ==
  IF loadedForUserId = u
  THEN UNCHANGED <<loadedForUserId, dataLoading, tasks, context, campaigns,
                   workspaces, activeWorkspaceId>>
  ELSE /\ loadedForUserId' = u
       /\ dataLoading' = TRUE
       /\ tasks' = tasks \cup {InitTask(u, "getDefault", NoWs, <<>>, TRUE)}
       /\ UNCHANGED <<context, campaigns, workspaces, activeWorkspaceId>>

\* App.tsx 282-302: the data-load effect for an anonymous session
DataEffectAnonymous ==
  LET saved == sessionStore
  IN  /\ loadedForUserId' = NoUser
      /\ context' = IF HasItem(saved) /\ ~IsNull(saved.context)
                    THEN migrateContext(saved.context) ELSE context
      /\ campaigns' = IF HasItem(saved) THEN saved.campaigns ELSE campaigns
      /\ workspaces' = <<>>
      /\ activeWorkspaceId' = NoWs
      /\ dataLoading' = FALSE
      /\ UNCHANGED tasks

\* ------------------------------------------------------------------ auth
\* part_006 75-82: getSession resolves, with a session or without
AuthResolved(u) ==
  /\ authLoading
  /\ authLoading' = FALSE
  /\ user' = u
  /\ IF u = NoUser THEN DataEffectAnonymous ELSE DataEffectUser(u)
  /\ Effects
  /\ UNCHANGED <<unloaded, storeVars, clock, requests, ops, sideVars>>

\* part_006 84-93: onAuthStateChange delivers a null session
SignOut ==
  /\ ~authLoading /\ user # NoUser
  /\ user' = NoUser
  /\ DataEffectAnonymous
  /\ Effects
  /\ UNCHANGED <<authLoading, unloaded, storeVars, clock, requests, ops, sideVars>>

\* The page is loaded again in the same tab: sessionStorage survives, memory is
\* what useState/useRef construct (App.tsx 205-210, part_006 36-40), suspended
\* functions are gone, and the mount runs the effects once: the data effect
\* returns at once (authLoading), the save effect does not (ref and userId null).
Reload ==
  /\ ops < MaxOps
  /\ ops' = ops + 1
  /\ unloaded' = sessionStore
  /\ authLoading' = TRUE /\ user' = NoUser
  /\ context' = NoContext /\ campaigns' = <<>>
  /\ dataLoading' = TRUE
  /\ workspaces' = <<>> /\ activeWorkspaceId' = NoWs
  /\ loadedForUserId' = NoUser
  /\ analyzedData' = NoContext
  /\ tasks' = {}
  /\ SafetyTimerEffect
  /\ sessionStore' = [context |-> NoContext, campaigns |-> <<>>]
  /\ UNCHANGED <<storeVars, clock, requests, sideVars>>

\* App.tsx 216-219: the safety timer fires
SafetyTimeout ==
  /\ timerArmed
  /\ dataLoading' = FALSE
  /\ UNCHANGED <<authVars, context, campaigns, workspaces, activeWorkspaceId,
                 loadedForUserId, unloaded, storeVars, clock, tasks, requests, ops, sideVars>>
  /\ Effects

\* ------------------------------------------------------- the initial load
Replace(t, t2) == tasks' = (tasks \ {t}) \cup {t2}
Finish(t) == tasks' = tasks \ {t}

memVars == <<context, campaigns, dataLoading, workspaces, activeWorkspaceId>>

\* part_000 22-33: getOrCreateDefaultWorkspace's query; its error is not read,
\* a failed query looks like no default
GetDefaultQuery(t, ok) ==
  /\ t.kind = "init" /\ t.pc = "getDefault"
  /\ LET rows == IF ok THEN DefaultRows(t.user) ELSE <<>>
     IN  Replace(t, [t EXCEPT !.pc = IF Len(rows) > 0 THEN "cleanup" ELSE "insertDefault",
                              !.clean = t.clean /\ ok])
  /\ UNCHANGED <<authVars, memVars, loadedForUserId, unloaded, storeVars, clock,
                 requests, ops, sideVars>>
  /\ Effects

\* part_000 36-50: insert the default workspace; createErr throws into
\* App.tsx 276-280
InsertDefault(t, ok) ==
  /\ t.kind = "init" /\ t.pc = "insertDefault"
  /\ IF ok
     THEN /\ dbClock < MaxInitWs + MaxCreated
          /\ dbWorkspaces' = dbWorkspaces \cup {InsertedWs(TRUE, "My Brand")}
          /\ dbClock' = dbClock + 1
          /\ Replace(t, [t EXCEPT !.pc = "cleanup"])
          /\ UNCHANGED dataLoading
     ELSE /\ Finish(t)
          /\ dataLoading' = FALSE
          /\ UNCHANGED <<dbWorkspaces, dbClock>>
  /\ UNCHANGED <<authVars, context, campaigns, workspaces, activeWorkspaceId,
                 loadedForUserId, unloaded, dbCampaigns, clock, requests, ops, sideVars>>
  /\ Effects

\* part_000 65-66: the oldest default is kept, the others are duplicates
Canonical(defaults) == defaults[1]
\* a slice that starts one row too late
DuplicatesFromSecond(defaults) == Tail(Tail(defaults))
Duplicates(defaults) == Tail(defaults)

\* part_000 56-66: cleanupDuplicateDefaultWorkspaces reads the defaults
CleanupQuery(t, ok) ==
  /\ t.kind = "init" /\ t.pc = "cleanup"
  /\ LET defaults == DefaultRows(t.user)
     IN  IF ~ok \/ Len(defaults) <= 1 \/ Len(Duplicates(defaults)) = 0
         THEN Replace(t, [t EXCEPT !.pc = "list", !.clean = t.clean /\ ok])
         ELSE Replace(t, [t EXCEPT !.pc = "cleanupDup", !.canonical = Canonical(defaults).id,
                                   !.dups = Duplicates(defaults)])
  /\ UNCHANGED <<authVars, memVars, loadedForUserId, unloaded, storeVars, clock,
                 requests, ops, sideVars>>
  /\ Effects

\* part_000 69: the test that decides whether a duplicate is kept
DupHasData(dup) == ~Falsy(dup.brand_context.name)

\* part_000 77-79
DemotedName(dup) == IF dup.name = "My Brand" THEN "My Brand (date)" ELSE dup.name

NextDup(t, ok) ==
  [t EXCEPT !.dups = Tail(t.dups),
            !.pc = IF Len(t.dups) > 1 THEN "cleanupDup" ELSE "list",
            !.clean = t.clean /\ ok]

\* part_000 68-88: a duplicate with data is demoted; for an empty one the
\* campaigns are moved first. No result of these requests is read.
CleanupDup(t, ok) ==
  /\ t.kind = "init" /\ t.pc = "cleanupDup"
  /\ LET dup == Head(t.dups)
     IN  IF DupHasData(dup)
         THEN /\ dbWorkspaces' =
                   IF ok THEN {IF w.id = dup.id
                               THEN [w EXCEPT !.is_default = FALSE, !.name = DemotedName(dup)]
                               ELSE w : w \in dbWorkspaces}
                   ELSE dbWorkspaces
              /\ UNCHANGED dbCampaigns
              /\ Replace(t, NextDup(t, ok))
         ELSE /\ dbCampaigns' =
                   IF ok THEN {IF r.workspace_id = dup.id
                               THEN [r EXCEPT !.workspace_id = t.canonical]
                               ELSE r : r \in dbCampaigns}
                   ELSE dbCampaigns
              /\ UNCHANGED dbWorkspaces
              /\ Replace(t, [t EXCEPT !.pc = "cleanupDelete", !.clean = t.clean /\ ok])
  /\ UNCHANGED <<authVars, memVars, loadedForUserId, unloaded, dbClock, clock,
                 requests, ops, sideVars>>
  /\ Effects

\* part_000 89-92: delete the empty duplicate
CleanupDelete(t, ok) ==
  /\ t.kind = "init" /\ t.pc = "cleanupDelete"
  /\ LET dup == Head(t.dups)
     IN  dbWorkspaces' = IF ok THEN {w \in dbWorkspaces : w.id # dup.id} ELSE dbWorkspaces
  /\ Replace(t, NextDup(t, ok))
  /\ UNCHANGED <<authVars, memVars, loadedForUserId, unloaded, dbCampaigns, dbClock, clock,
                 requests, ops, sideVars>>
  /\ Effects

\* workspaces.find(w => w.is_default) || workspaces[0]
DefaultOf(ws) ==
  LET d == SelectSeq(ws, LAMBDA w : w.is_default)
  IN  IF Len(d) > 0 THEN d[1] ELSE ws[1]

\* App.tsx 267-275: listWorkspaces, then loadWorkspaceData up to its await
ListWs(t, ok) ==
  /\ t.kind = "init" /\ t.pc = "list"
  /\ IF ~ok
     THEN /\ Finish(t) /\ dataLoading' = FALSE
          /\ UNCHANGED <<context, workspaces>>
     ELSE LET all == listWorkspaces(t.user)
          IN  /\ workspaces' = all
              /\ IF Len(all) > 0
                 THEN /\ context' = ProfileOf(DefaultOf(all))
                      /\ Replace(t, LoadTask(t.user, DefaultOf(all), "init", t.clean))
                      /\ UNCHANGED dataLoading
                 ELSE /\ Finish(t) /\ dataLoading' = FALSE
                      /\ UNCHANGED context
  /\ UNCHANGED <<authVars, campaigns, activeWorkspaceId, loadedForUserId, unloaded,
                 storeVars, clock, requests, ops, sideVars>>
  /\ Effects

\* App.tsx 236-238 and the caller's next lines: loadCampaigns returns or throws.
\* The initial load and switchWorkspace end loading in both cases (280, 325);
\* handleCreateWorkspace and handleDeleteWorkspace only when it returns (336, 363).
LoadCampaignsDone(t, ok) ==
  /\ t.kind = "load"
  /\ Finish(t)
  /\ IF ok
     THEN /\ campaigns' = loadCampaigns(t.user, t.ws.id)
          /\ activeWorkspaceId' = t.ws.id
          /\ dataLoading' = FALSE
     ELSE /\ UNCHANGED <<campaigns, activeWorkspaceId>>
          /\ dataLoading' = IF t.origin \in {"init", "switch"} THEN FALSE ELSE dataLoading
  /\ UNCHANGED <<authVars, context, workspaces, loadedForUserId, unloaded, storeVars, clock,
                 requests, ops, sideVars>>
  /\ Effects

\* ------------------------------------------------------ workspace actions
\* the rows the WorkspaceSwitcher lists (part_007 37: nothing without a user)
Listed == IF user = NoUser THEN {} ELSE Range(workspaces)

Gesture == ops < MaxOps /\ ops' = ops + 1

\* App.tsx 314-321: switchWorkspace up to the await inside loadWorkspaceData
switchWorkspace(ws) ==
  /\ Gesture
  /\ ws \in Listed
  /\ user # NoUser /\ ws.id # activeWorkspaceId
  /\ dataLoading' = TRUE
  /\ context' = ProfileOf(ws)
  /\ tasks' = tasks \cup {LoadTask(user, ws, "switch", TRUE)}
  /\ UNCHANGED <<authVars, campaigns, workspaces, activeWorkspaceId, loadedForUserId,
                 unloaded, storeVars, clock, requests, sideVars>>
  /\ Effects

\* App.tsx 328-331: handleCreateWorkspace up to `await createWorkspace`
handleCreateWorkspace ==
  /\ Gesture
  /\ user # NoUser
  /\ tasks' = tasks \cup {[kind |-> "createWs", user |-> user]}
  /\ UNCHANGED <<authVars, memVars, loadedForUserId, unloaded, storeVars, clock,
                 requests, sideVars>>
  /\ Effects

\* part_000 210-230 and App.tsx 332-335
CreateWorkspaceDone(t, ok) ==
  /\ t.kind = "createWs"
  /\ IF ok
     THEN LET newWs == InsertedWs(FALSE, "Brand 2")
          IN  /\ dbClock < MaxInitWs + MaxCreated
              /\ dbWorkspaces' = dbWorkspaces \cup {newWs}
              /\ dbClock' = dbClock + 1
              /\ workspaces' = Append(workspaces, newWs)
              /\ dataLoading' = TRUE
              /\ context' = ProfileOf(newWs)
              /\ Replace(t, LoadTask(t.user, newWs, "create", TRUE))
     ELSE /\ Finish(t)
          /\ UNCHANGED <<dbWorkspaces, dbClock, workspaces, dataLoading, context>>
  /\ UNCHANGED <<authVars, campaigns, activeWorkspaceId, loadedForUserId, unloaded,
                 dbCampaigns, clock, requests, ops, sideVars>>
  /\ Effects

\* App.tsx 351-354: handleDeleteWorkspace up to `await deleteWorkspace`; the
\* callback keeps the workspaces and activeWorkspaceId of the render it was made in.
\* part_007 142: the switcher offers it for rows that are not the default.
handleDeleteWorkspace(ws) ==
  /\ Gesture
  /\ ws \in Listed /\ ~ws.is_default
  /\ user # NoUser
  /\ tasks' = tasks \cup {[kind |-> "deleteWs", user |-> user, id |-> ws.id,
                           workspaces |-> workspaces, active |-> activeWorkspaceId]}
  /\ UNCHANGED <<authVars, memVars, loadedForUserId, unloaded, storeVars, clock,
                 requests, sideVars>>
  /\ Effects

\* part_000 245-253 and App.tsx 355-362
DeleteWorkspaceDone(t, ok) ==
  /\ t.kind = "deleteWs"
  /\ IF ok
     THEN LET remaining == SelectSeq(t.workspaces, LAMBDA w : w.id # t.id)
          IN  /\ dbWorkspaces' = {w \in dbWorkspaces : w.id # t.id}
              /\ workspaces' = remaining
              /\ IF t.id = t.active /\ Len(remaining) > 0
                 THEN /\ dataLoading' = TRUE
                      /\ context' = ProfileOf(DefaultOf(remaining))
                      /\ Replace(t, LoadTask(t.user, DefaultOf(remaining), "delete", TRUE))
                 ELSE /\ Finish(t)
                      /\ UNCHANGED <<dataLoading, context>>
     ELSE /\ Finish(t)
          /\ UNCHANGED <<dbWorkspaces, workspaces, dataLoading, context>>
  /\ UNCHANGED <<authVars, campaigns, activeWorkspaceId, loadedForUserId, unloaded,
                 dbCampaigns, dbClock, clock, requests, ops, sideVars>>
  /\ Effects

\* ----------------------------------------------------------- data actions
\* what memory held when the operation that issued a write was called
Snapshot == [context |-> context, campaigns |-> campaigns]

SaveContextReq(wsId, c, before) ==
  [kind |-> "saveWorkspaceContext", ws |-> wsId, context |-> c, before |-> before]
SaveCampaignReq(u, wsId, c, before) ==
  [kind |-> "saveCampaign", user |-> u, ws |-> wsId, campaign |-> c, before |-> before]
DeleteCampaignReq(id, before) ==
  [kind |-> "deleteCampaignFromDb", id |-> id, before |-> before]

\* the columns setContext writes, as a stored object
ContextCols(c) == [name |-> c.name, tagline |-> c.tagline]

\* App.tsx 372-386: setContext as the callback of the current render
setContext(c) ==
  /\ context' = c
  /\ IF user # NoUser /\ activeWorkspaceId # NoWs
     THEN /\ requests' = requests \cup {SaveContextReq(activeWorkspaceId, c, Snapshot)}
          /\ workspaces' = MapSeq(workspaces, LAMBDA w :
                             IF w.id = activeWorkspaceId
                             THEN [w EXCEPT !.brand_context = ContextCols(c)] ELSE w)
     ELSE UNCHANGED <<requests, workspaces>>

\* App.tsx 388-396: addCampaign as the callback of the render that held
\* user u and activeWorkspaceId wsId
addCampaign(c, u, wsId) ==
  /\ campaigns' = <<c>> \o campaigns
  /\ requests' = IF u # NoUser /\ wsId # NoWs
                 THEN requests \cup {SaveCampaignReq(u, wsId, c, Snapshot)}
                 ELSE requests

\* { ...c, ...updates }
Merge(c, updates) ==
  [f \in DOMAIN c |-> IF f \in DOMAIN updates THEN updates[f] ELSE c[f]]

\* App.tsx 400-401: the updater's list, and the campaign it then saves
Updated(prev, id, updates) ==
  MapSeq(prev, LAMBDA c : IF c.id = id THEN Merge(c, updates) ELSE c)
UpdatedCampaign(prev, id, updates) ==
  SelectSeq(Updated(prev, id, updates), LAMBDA c : c.id = id)

\* App.tsx 398-411
updateCampaign(id, updates) ==
  LET found == UpdatedCampaign(campaigns, id, updates)
  IN  /\ campaigns' = Updated(campaigns, id, updates)
      /\ requests' = IF user # NoUser /\ activeWorkspaceId # NoWs /\ Len(found) > 0
                     THEN requests \cup {SaveCampaignReq(user, activeWorkspaceId, found[1], Snapshot)}
                     ELSE requests

\* App.tsx 413-421
deleteCampaign(id) ==
  /\ campaigns' = SelectSeq(campaigns, LAMBDA c : c.id # id)
  /\ requests' = IF user # NoUser THEN requests \cup {DeleteCampaignReq(id, Snapshot)}
                 ELSE requests

\* the routes of App.tsx 442-462 render a page only when these hold
DashboardShown == ~dataLoading /\ (~IsNull(context) \/ Len(workspaces) > 0)
CampaignPagesShown == ~dataLoading /\ ~IsNull(context)

CampaignIds == {c.id : c \in Range(campaigns)}

\* part_001 13-18 (Dashboard.handleDelete)
DashboardDelete(id) ==
  /\ Gesture
  /\ DashboardShown /\ id \in CampaignIds
  /\ deleteCampaign(id)
  /\ UNCHANGED <<authVars, context, dataLoading, workspaces, activeWorkspaceId,
                 loadedForUserId, unloaded, storeVars, clock, tasks, sideVars>>
  /\ Effects

\* part_001 177-183 (CampaignView.handleUpdateEmail): the page edits the emails
EditedEmails == "e1"
ViewUpdateEmail(id) ==
  /\ Gesture
  /\ CampaignPagesShown /\ id \in CampaignIds
  /\ updateCampaign(id, [emails |-> EditedEmails])
  /\ UNCHANGED <<authVars, context, dataLoading, workspaces, activeWorkspaceId,
                 loadedForUserId, unloaded, storeVars, clock, tasks, sideVars>>
  /\ Effects

\* part_005 37-42: CampaignBuilder.handleCreate up to `await generateCampaign`;
\* it keeps the addCampaign of the render it was called in
handleCreate ==
  /\ Gesture
  /\ CampaignPagesShown
  /\ clock < MaxCampaigns
  /\ tasks' = tasks \cup {[kind |-> "generate", user |-> user, active |-> activeWorkspaceId]}
  /\ UNCHANGED <<authVars, memVars, loadedForUserId, unloaded, storeVars, clock,
                 requests, sideVars>>
  /\ Effects

\* part_005 43-50: generateCampaign returned (the campaign gets Date.now() as id)
\* or threw
GenerateDone(t, ok) ==
  /\ t.kind = "generate"
  /\ Finish(t)
  /\ IF ok
     THEN /\ clock < MaxCampaigns
          /\ clock' = clock + 1
          /\ addCampaign([id |-> clock + 1, name |-> "n0", emails |-> "e0"], t.user, t.active)
     ELSE UNCHANGED <<clock, campaigns, requests>>
  /\ UNCHANGED <<authVars, context, dataLoading, workspaces, activeWorkspaceId,
                 loadedForUserId, unloaded, storeVars, ops, sideVars>>
  /\ Effects

\* ------------------------------------------------------------- onboarding
\* Onboarding.tsx 202-208: runAnalysis up to `await analyzeContext`
runAnalysis ==
  /\ Gesture
  /\ IsNull(analyzedData)
  /\ tasks' = tasks \cup {[kind |-> "analyze"]}
  /\ UNCHANGED <<authVars, memVars, loadedForUserId, unloaded, storeVars, clock,
                 requests, sideVars>>
  /\ Effects

\* Onboarding.tsx 209-215: analyzeContext returned a profile, or threw
AnalysisDone(t, ok, result) ==
  /\ t.kind = "analyze"
  /\ Finish(t)
  /\ UNCHANGED <<authVars, memVars, loadedForUserId, unloaded, storeVars, clock,
                 requests, ops, sideVars>>
  /\ SafetyTimerEffect /\ SaveEffect
  /\ OnboardingEffect(IF ok THEN result ELSE analyzedData)

\* Onboarding.tsx 223-229: handleConfirm
handleConfirm ==
  /\ Gesture
  /\ ~IsNull(analyzedData)
  /\ setContext(analyzedData)
  /\ UNCHANGED <<authVars, campaigns, dataLoading, activeWorkspaceId, loadedForUserId,
                 unloaded, storeVars, clock, tasks, sideVars>>
  /\ Effects

\* Onboarding.tsx 241-265: handleSaveEdit, the drawer having edited the draft to
\* `updated`; the global profile follows only when there is one
handleSaveEdit(updated) ==
  /\ Gesture
  /\ ~IsNull(analyzedData) /\ updated # analyzedData
  /\ IF ~IsNull(context)
     THEN setContext(updated)
     ELSE UNCHANGED <<context, requests, workspaces>>
  /\ UNCHANGED <<authVars, campaigns, dataLoading, activeWorkspaceId, loadedForUserId,
                 unloaded, storeVars, clock, tasks, sideVars>>
  /\ SafetyTimerEffect /\ SaveEffect
  /\ analyzedData' = updated

\* ------------------------------------------------- the writes reach the store
\* part_000 97-112, 162-193: the request is executed, or fails; the caller
\* only logs a failure (App.tsx 376, 392, 404, 417)
Executed(r) ==
  CASE r.kind = "saveWorkspaceContext" ->
         /\ dbWorkspaces' = {IF w.id = r.ws
                             THEN [w EXCEPT !.brand_context = ContextCols(r.context)]
                             ELSE w : w \in dbWorkspaces}
         /\ UNCHANGED dbCampaigns
    [] r.kind = "saveCampaign" ->
         /\ dbCampaigns' = Upsert(dbCampaigns, saveCampaignPayload(r.user, r.ws, r.campaign))
         /\ UNCHANGED dbWorkspaces
    [] r.kind = "deleteCampaignFromDb" ->
         /\ dbCampaigns' = {row \in dbCampaigns : row.id # r.id}
         /\ UNCHANGED dbWorkspaces

RequestDone(r, ok) ==
  /\ r \in requests
  /\ requests' = requests \ {r}
  /\ IF ok THEN Executed(r) ELSE UNCHANGED <<dbWorkspaces, dbCampaigns>>
  /\ UNCHANGED <<authVars, memVars, loadedForUserId, timerArmed, analyzedData, sessionStore,
                 unloaded, dbClock, clock, tasks, ops, sideVars>>

\* ------------------------------------------------------------ initial states
\* what a workspace row may look like before the session starts
InitShapes ==
  {[is_default |-> TRUE,  name |-> "My Brand", brand_context |-> EmptyJson],
   [is_default |-> TRUE,  name |-> "My Brand", brand_context |-> [name |-> "Acme", tagline |-> Undef]],
   [is_default |-> TRUE,  name |-> "My Brand", brand_context |-> [name |-> "", tagline |-> "t"]],
   [is_default |-> FALSE, name |-> "Brand 2",  brand_context |-> [name |-> "Bolt", tagline |-> "t"]]}

\* rows 1..MaxInitWs, the higher id the older row
InitRow(id, shape) ==
  WsRow(id, shape.is_default, MaxInitWs + 1 - id, shape.name, shape.brand_context)

InitialWorkspaces ==
  UNION {{{InitRow(id, f[id]) : id \in ids} : f \in [ids -> InitShapes]} :
         ids \in SUBSET (1..MaxInitWs)}

ExistingCampaign(wsId) ==
  [id |-> 0, user_id |-> User1, workspace_id |-> wsId, name |-> "n0", emails |-> "e0"]

\* the memory useState/useRef construct, after the effects of the mount
Mounted ==
  /\ authLoading = TRUE /\ user = NoUser
  /\ context = NoContext /\ campaigns = <<>>
  /\ dataLoading = TRUE
  /\ workspaces = <<>> /\ activeWorkspaceId = NoWs
  /\ loadedForUserId = NoUser
  /\ timerArmed = TRUE
  /\ analyzedData = NoContext
  /\ sessionStore = [context |-> NoContext, campaigns |-> <<>>]
  /\ unloaded = NoItem
  /\ tasks = {} /\ requests = {}
  /\ clock = 0 /\ ops = 0

\* table profiles before any checkout: part_006 21 ('free'), no Stripe customer
InitialProfiles ==
  [u \in {User1} |-> [subscription_status |-> "free", stripe_customer_id |-> Undef]]

BillingIdle == profiles = InitialProfiles /\ edge = {}
CalcIdle == calc = <<>>

SideIdle == api = <<>> /\ tabs = <<>> /\ saveLog = <<>> /\ BillingIdle /\ CalcIdle

\* every store of at most MaxInitWs rows, with or without a campaign in one of them
InitAnyStore ==
  /\ Mounted /\ SideIdle
  /\ dbWorkspaces \in InitialWorkspaces
  /\ dbCampaigns \in {{}} \cup {{ExistingCampaign(w.id)} : w \in dbWorkspaces}
  /\ dbClock = MaxInitWs

\* a new account, or one with a default workspace that holds a campaign
Init ==
  /\ Mounted /\ SideIdle
  /\ \/ dbWorkspaces = {} /\ dbCampaigns = {}
     \/ /\ dbWorkspaces = {InitRow(1, CHOOSE sh \in InitShapes :
                                        sh.is_default /\ sh.brand_context.name = "Acme")}
        /\ dbCampaigns = {ExistingCampaign(1)}
  /\ dbClock = MaxInitWs

\* ------------------------------------------------------------------ steps
AuthStep == \E u \in {NoUser, User1} : AuthResolved(u)

LoadStep ==
  \E t \in tasks, ok \in BOOLEAN :
    \/ GetDefaultQuery(t, ok)
    \/ InsertDefault(t, ok)
    \/ CleanupQuery(t, ok)
    \/ CleanupDup(t, ok)
    \/ CleanupDelete(t, ok)
    \/ ListWs(t, ok)
    \/ LoadCampaignsDone(t, ok)

WorkspaceStep ==
  \/ \E ws \in Listed : switchWorkspace(ws)
  \/ handleCreateWorkspace
  \/ \E ws \in Listed : handleDeleteWorkspace(ws)
  \/ \E t \in tasks, ok \in BOOLEAN : CreateWorkspaceDone(t, ok) \/ DeleteWorkspaceDone(t, ok)

CampaignStep ==
  \/ \E id \in CampaignIds : DashboardDelete(id)
  \/ \E id \in CampaignIds : ViewUpdateEmail(id)
  \/ handleCreate
  \/ \E t \in tasks, ok \in BOOLEAN : GenerateDone(t, ok)

OnboardingStep ==
  \/ runAnalysis
  \/ \E t \in tasks, ok \in BOOLEAN, result \in Profiles : AnalysisDone(t, ok, result)
  \/ handleConfirm
  \/ \E updated \in Profiles : handleSaveEdit(updated)

StoreStep == \E r \in requests, ok \in BOOLEAN : RequestDone(r, ok)

\* the session with everything a user can do in it
Next ==
  \/ AuthStep \/ SignOut \/ Reload \/ SafetyTimeout
  \/ LoadStep \/ WorkspaceStep \/ CampaignStep \/ OnboardingStep \/ StoreStep

Spec == Init /\ [][Next]_vars

\* the loads alone: sign-in, the initial load, the workspace actions, the timer
NextLoads == AuthStep \/ SignOut \/ SafetyTimeout \/ LoadStep \/ WorkspaceStep

\* the initial load alone, from every store
NextInitialLoad == AuthStep \/ SignOut \/ SafetyTimeout \/ LoadStep

SpecInitialLoad == InitAnyStore /\ [][NextInitialLoad]_vars

\* the loads of one account
SpecWorkspaces == Init /\ [][NextLoads]_vars

\* the loads of one account, the safety timer being a timer the event loop runs
SpecWorkspacesLive == SpecWorkspaces /\ WF_vars(SafetyTimeout)

\* ------------------------------------------------ the backend API (apiService)
\* `api` is <<>> while no call is running, else <<call>>:
\*   op       the exported function that was called
\*   pc       "saveContext"  generateCampaign awaits the saveContext it calls first
\*            "fetch"        the request is on its way
\*            "response"     fetch has resolved with `status` and the body's `detail`
\*            "done"         the function has returned or thrown `outcome`
ApiOps ==
  {"analyzeContext", "extractTextFromFile", "extractTextFromUrl", "saveContext",
   "generateCampaign", "getCampaign", "updateEmail", "exportCampaign", "getUsage",
   "setUserApiKey"}
Statuses == {200, 429, 500}
Details == {Undef, "", "Limit reached"}      \* the `detail` of the response body

DefaultRateLimitMessage == "Daily usage limit reached. Add your own API key or try again tomorrow."

\* apiService.ts 21-27; the default parameter replaces undefined only
RateLimitError(message) ==
  [name |-> "RateLimitError",
   message |-> IF message = Undef THEN DefaultRateLimitMessage ELSE message]
Error(message) == [name |-> "Error", message |-> message]

Thrown(e) == [thrown |-> TRUE, error |-> e]
Returned(v) == [thrown |-> FALSE, value |-> v]
Pending == [pending |-> TRUE]

\* apiService.ts 50-57
checkResponse(status, detail) ==
  IF status = 429 THEN Thrown(RateLimitError(OrElse(detail, Undef)))
  ELSE Returned("response")

ResponseOk(status) == status \in 200..299

\* checkResponse, then `if (!response.ok) throw new Error(...)`, then the value
Checked(status, detail, notOk) ==
  IF checkResponse(status, detail).thrown THEN checkResponse(status, detail)
  ELSE IF ~ResponseOk(status) THEN Thrown(Error(notOk))
  ELSE Returned("value")

\* try { ... } catch (error) { throw new Error(message) }
CatchRethrow(result, message) == IF result.thrown THEN Thrown(Error(message)) ELSE result

ApiUnchanged ==
  UNCHANGED <<authVars, memVars, loadedForUserId, timerArmed, analyzedData, sessionStore,
              unloaded, storeVars, requests, clock, tasks, ops, tabs, saveLog,
              profiles, edge, calc>>

ApiCall(op) ==
  /\ api = <<>>
  /\ api' = <<[op |-> op, pc |-> IF op = "generateCampaign" THEN "saveContext" ELSE "fetch",
               status |-> 0, detail |-> Undef, outcome |-> Pending]>>
  /\ ApiUnchanged

\* fetch resolves
ApiResponse(status, detail) ==
  /\ api # <<>> /\ api[1].pc = "fetch"
  /\ api' = <<[api[1] EXCEPT !.pc = "response", !.status = status, !.detail = detail]>>
  /\ ApiUnchanged

Responded(op) == api # <<>> /\ api[1].op = op /\ api[1].pc = "response"

Settle(outcome) ==
  /\ api' = <<[api[1] EXCEPT !.pc = "done", !.outcome = outcome]>>
  /\ ApiUnchanged

\* apiService.ts 62-162
analyzeContext ==
  /\ Responded("analyzeContext")
  /\ Settle(CatchRethrow(Checked(api[1].status, api[1].detail,
                                 OrElse(api[1].detail, "Failed to analyze context")),
                         "Failed to analyze context. Make sure the API server is running."))

\* apiService.ts 167-185
extractTextFromFile ==
  /\ Responded("extractTextFromFile")
  /\ Settle(Checked(api[1].status, api[1].detail,
                    OrElse(api[1].detail, "Failed to extract text from file")))

\* apiService.ts 190-204
extractTextFromUrl ==
  /\ Responded("extractTextFromUrl")
  /\ Settle(Checked(api[1].status, api[1].detail,
                    OrElse(api[1].detail, "Failed to extract text from URL")))

\* apiService.ts 209-289: whatever is thrown is logged, the promise resolves
saveContext ==
  /\ Responded("saveContext")
  /\ Settle(Returned(Undef))

\* apiService.ts 296-298: the saveContext that generateCampaign awaits never
\* throws, whatever its response; the campaign request follows
GenerateSavedContext(status, detail) ==
  /\ api # <<>> /\ api[1].pc = "saveContext"
  /\ api' = <<[api[1] EXCEPT !.pc = "fetch"]>>
  /\ ApiUnchanged

\* apiService.ts 294-345
generateCampaign ==
  /\ Responded("generateCampaign")
  /\ Settle(CatchRethrow(
       Checked(api[1].status, api[1].detail, OrElse(api[1].detail, "Failed to generate campaign")),
       "Failed to generate campaign. Make sure the API server is running and has API credits."))

\* apiService.ts 350-386: null when the response is not ok or anything throws
getCampaign ==
  /\ Responded("getCampaign")
  /\ Settle(IF Checked(api[1].status, api[1].detail, "").thrown THEN Returned("null")
            ELSE Returned("value"))

\* apiService.ts 391-419: the catch logs and rethrows the same error
updateEmail ==
  /\ Responded("updateEmail")
  /\ Settle(Checked(api[1].status, api[1].detail, "Failed to update email"))

\* apiService.ts 424-448
exportCampaign ==
  /\ Responded("exportCampaign")
  /\ Settle(Checked(api[1].status, api[1].detail, "Failed to export campaign"))

\* apiService.ts 453-464
getUsage ==
  /\ Responded("getUsage")
  /\ Settle(Checked(api[1].status, api[1].detail, "Failed to fetch usage"))

\* apiService.ts 469-477
setUserApiKey ==
  /\ Responded("setUserApiKey")
  /\ Settle(Checked(api[1].status, api[1].detail, "Failed to save API key"))

\* the caller has the outcome
ApiReturn ==
  /\ api # <<>> /\ api[1].pc = "done"
  /\ api' = <<>>
  /\ ApiUnchanged

NextApi ==
  \/ \E op \in ApiOps : ApiCall(op)
  \/ \E status \in Statuses, detail \in Details : ApiResponse(status, detail)
  \/ \E status \in Statuses, detail \in Details : GenerateSavedContext(status, detail)
  \/ analyzeContext \/ extractTextFromFile \/ extractTextFromUrl \/ saveContext
  \/ generateCampaign \/ getCampaign \/ updateEmail \/ exportCampaign
  \/ getUsage \/ setUserApiKey
  \/ ApiReturn

SpecApi == Init /\ [][NextApi]_vars

\* ------------------------------------------- two sessions of one user (tabs)
\* `tabs[i]` is the campaign list in the memory of session i; both sessions are
\* signed in as User1 with SharedWs active. `saveLog` lists the saveCampaign
\* requests in the order in which they reached the store.
Tabs == {1, 2}
SharedWs == 1
SharedCampaign == 0
Edits == {[name |-> "n1"], [emails |-> "e1"]}

InitSync ==
  /\ Mounted /\ api = <<>> /\ saveLog = <<>> /\ BillingIdle /\ CalcIdle
  /\ dbWorkspaces = {InitRow(SharedWs, CHOOSE sh \in InitShapes :
                                         sh.is_default /\ sh.brand_context.name = "Acme")}
  /\ dbCampaigns = {ExistingCampaign(SharedWs)}
  /\ dbClock = MaxInitWs
  /\ tabs = [i \in Tabs |-> loadCampaigns(User1, SharedWs)]

SyncUnchanged ==
  UNCHANGED <<authVars, memVars, loadedForUserId, timerArmed, analyzedData, sessionStore,
              unloaded, dbWorkspaces, dbClock, clock, tasks, ops, api,
              profiles, edge, calc>>

\* App.tsx 398-411 in session i
TabUpdateCampaign(i, updates) ==
  LET found == UpdatedCampaign(tabs[i], SharedCampaign, updates)
  IN  /\ Len(saveLog) + Cardinality(requests) < MaxSaves
      /\ Len(found) > 0
      /\ tabs' = [tabs EXCEPT ![i] = Updated(tabs[i], SharedCampaign, updates)]
      /\ requests' = requests \cup
           {SaveCampaignReq(User1, SharedWs, found[1],
                            [context |-> NoContext, campaigns |-> tabs[i]]) @@ [tab |-> i]}
      /\ UNCHANGED <<dbCampaigns, saveLog>>
      /\ SyncUnchanged

\* part_000 162-183: a save reaches the store, or the request fails and is logged
TabSaveDone(r, ok) ==
  /\ r \in requests /\ r.kind = "saveCampaign"
  /\ requests' = requests \ {r}
  /\ IF ok THEN Executed(r) /\ saveLog' = Append(saveLog, r)
     ELSE UNCHANGED <<dbWorkspaces, dbCampaigns, saveLog>>
  /\ UNCHANGED <<authVars, memVars, loadedForUserId, timerArmed, analyzedData, sessionStore,
                 unloaded, dbClock, clock, tasks, ops, api, tabs, profiles, edge, calc>>

\* session i is loaded again: part_000 137-160
TabLoadCampaigns(i) ==
  /\ tabs[i] # loadCampaigns(User1, SharedWs)
  /\ tabs' = [tabs EXCEPT ![i] = loadCampaigns(User1, SharedWs)]
  /\ UNCHANGED <<requests, dbCampaigns, saveLog>>
  /\ SyncUnchanged

NextSync ==
  \/ \E i \in Tabs, updates \in Edits : TabUpdateCampaign(i, updates)
  \/ \E r \in requests, ok \in BOOLEAN : TabSaveDone(r, ok)
  \/ \E i \in Tabs : TabLoadCampaigns(i)

SpecSync == InitSync /\ [][NextSync]_vars

\* --------------------------------- billing (edge functions, table profiles)
\* `edge` is the set of requests being handled; a request record has
\*   fn        "stripe-webhook" or "create-checkout"
\*   pc        where its handler is suspended, "done" once it has a response
\*   response  the HTTP status of the response, 0 before
WebhookSecret == "whsec_live"
Secrets == {WebhookSecret, "whsec_other"}
Customer1 == "cus_1"

\* the Stripe events a request body can hold
StripeEvents ==
  {[type |-> "checkout.session.completed", userId |-> u, customer |-> Customer1, status |-> Undef]
     : u \in {User1, Undef}}
  \cup {[type |-> "customer.subscription.updated", userId |-> Undef, customer |-> Customer1,
         status |-> st] : st \in {"active", "past_due"}}
  \cup {[type |-> "customer.subscription.deleted", userId |-> Undef, customer |-> Customer1,
         status |-> "canceled"],
        [type |-> "invoice.paid", userId |-> Undef, customer |-> Customer1, status |-> Undef]}

\* the stripe-signature header: absent, or a signature made with a secret over a body
NoSignature == [missing |-> TRUE]
Signatures == {NoSignature} \cup [secret : Secrets, body : StripeEvents]

\* a check that takes any signature that is present
constructEventUnverified(body, signature) == TRUE

\* stripe-webhook 21: constructEventAsync(body, signature, webhookSecret) returns
\* the event, or throws when the signature was not made with the secret over the body
constructEventAsync(body, signature) ==
  signature.secret = WebhookSecret /\ signature.body = body

BillingUnchanged == UNCHANGED <<appVars, api, tabs, saveLog, calc>>

Answer(r, status) == [r EXCEPT !.pc = "done", !.response = status]
EdgeReplace(r, r2) == edge' = (edge \ {r}) \cup {r2}

\* a POST reaches the webhook endpoint
WebhookRequest(signature, event) ==
  /\ Cardinality(edge) < MaxEdge
  /\ edge' = edge \cup {[fn |-> "stripe-webhook", pc |-> "received", signature |-> signature,
                         event |-> event, response |-> 0]}
  /\ UNCHANGED profiles
  /\ BillingUnchanged

\* stripe-webhook 12-25
WebhookVerify(r) ==
  /\ r \in edge /\ r.fn = "stripe-webhook" /\ r.pc = "received"
  /\ IF r.signature = NoSignature THEN EdgeReplace(r, Answer(r, 400))
     ELSE IF ~constructEventAsync(r.event, r.signature) THEN EdgeReplace(r, Answer(r, 400))
     ELSE EdgeReplace(r, [r EXCEPT !.pc = "verified"])
  /\ UNCHANGED profiles
  /\ BillingUnchanged

\* stripe-webhook 32-76: the update the event's type asks for
WebhookUpdate(event) ==
  CASE event.type = "checkout.session.completed" ->
         [u \in DOMAIN profiles |->
            IF event.userId # Undef /\ u = event.userId
            THEN [subscription_status |-> "premium", stripe_customer_id |-> event.customer]
            ELSE profiles[u]]
    [] event.type = "customer.subscription.updated" ->
         [u \in DOMAIN profiles |->
            IF profiles[u].stripe_customer_id = event.customer
            THEN [profiles[u] EXCEPT !.subscription_status =
                    IF event.status = "active" THEN "premium" ELSE "cancelled"]
            ELSE profiles[u]]
    [] event.type = "customer.subscription.deleted" ->
         [u \in DOMAIN profiles |->
            IF profiles[u].stripe_customer_id = event.customer
            THEN [profiles[u] EXCEPT !.subscription_status = "cancelled"]
            ELSE profiles[u]]
    [] OTHER -> profiles

\* stripe-webhook 27-80: the update's result is not read, the answer is 200
WebhookHandle(r, ok) ==
  /\ r \in edge /\ r.fn = "stripe-webhook" /\ r.pc = "verified"
  /\ profiles' = IF ok THEN WebhookUpdate(r.event) ELSE profiles
  /\ EdgeReplace(r, Answer(r, 200))
  /\ BillingUnchanged

\* a POST reaches create-checkout, with the token of `caller` or none that is valid
CheckoutRequest(caller) ==
  /\ Cardinality(edge) < MaxEdge
  /\ edge' = edge \cup {[fn |-> "create-checkout", pc |-> "received", caller |-> caller,
                         customer |-> Undef, response |-> 0]}
  /\ UNCHANGED profiles
  /\ BillingUnchanged

\* part_006 286-318: getUser, then the profile read
CheckoutAuth(r) ==
  /\ r \in edge /\ r.fn = "create-checkout" /\ r.pc = "received"
  /\ IF r.caller = NoUser THEN EdgeReplace(r, Answer(r, 401))
     ELSE IF profiles[r.caller].subscription_status = "premium"
          THEN EdgeReplace(r, Answer(r, 400))
     ELSE IF Falsy(profiles[r.caller].stripe_customer_id)
          THEN EdgeReplace(r, [r EXCEPT !.pc = "customer"])
     ELSE EdgeReplace(r, [r EXCEPT !.pc = "session",
                                   !.customer = profiles[r.caller].stripe_customer_id])
  /\ UNCHANGED profiles
  /\ BillingUnchanged

\* part_006 319-335: stripe.customers.create, then the id is saved to the profile
CheckoutCustomer(r, ok) ==
  /\ r \in edge /\ r.fn = "create-checkout" /\ r.pc = "customer"
  /\ IF ok
     THEN /\ profiles' = [profiles EXCEPT ![r.caller].stripe_customer_id = Customer1]
          /\ EdgeReplace(r, [r EXCEPT !.pc = "session", !.customer = Customer1])
     ELSE /\ UNCHANGED profiles
          /\ EdgeReplace(r, Answer(r, 500))
  /\ BillingUnchanged

\* part_006 337-360: the Checkout Session, or the catch
CheckoutSession(r, ok) ==
  /\ r \in edge /\ r.fn = "create-checkout" /\ r.pc = "session"
  /\ EdgeReplace(r, Answer(r, IF ok THEN 200 ELSE 500))
  /\ UNCHANGED profiles
  /\ BillingUnchanged

\* the response has been sent
EdgeRespond(r) ==
  /\ r \in edge /\ r.pc = "done"
  /\ edge' = edge \ {r}
  /\ UNCHANGED profiles
  /\ BillingUnchanged

NextBilling ==
  \/ \E signature \in Signatures, event \in StripeEvents : WebhookRequest(signature, event)
  \/ \E r \in edge : WebhookVerify(r)
  \/ \E r \in edge, ok \in BOOLEAN : WebhookHandle(r, ok)
  \/ \E caller \in {NoUser, User1} : CheckoutRequest(caller)
  \/ \E r \in edge : CheckoutAuth(r)
  \/ \E r \in edge, ok \in BOOLEAN : CheckoutCustomer(r, ok)
  \/ \E r \in edge, ok \in BOOLEAN : CheckoutSession(r, ok)
  \/ \E r \in edge : EdgeRespond(r)

SpecBilling == Init /\ [][NextBilling]_vars

\* ------------------------------------------------ JSON values, as JS sees them
\* A value of a parsed JSON document carries its type: `t` is what typeof /
\* Array.isArray tell, the other field the content: s a string, n a number,
\* b a boolean, a a sequence, o a function from keys to values.
JsUndefined == [t |-> "undefined"]
JsNull == [t |-> "null"]
Str(x) == [t |-> "string", s |-> x]
Num(x) == [t |-> "number", n |-> x]
Bool(x) == [t |-> "boolean", b |-> x]
Arr(x) == [t |-> "array", a |-> x]
Obj(x) == [t |-> "object", o |-> x]

\* what `||`, `?:` and filter(Boolean) take for true
Truthy(x) ==
  CASE x.t \in {"undefined", "null"} -> FALSE
    [] x.t = "string" -> x.s # ""
    [] x.t = "number" -> x.n # 0
    [] x.t = "boolean" -> x.b
    [] OTHER -> TRUE

\* a || b
Or(a, b) == IF Truthy(a) THEN a ELSE b
\* a ?? b
Nullish(a, b) == IF a.t \in {"undefined", "null"} THEN b ELSE a
\* o?.f
Get(o, f) == IF o.t = "object" /\ f \in DOMAIN o.o THEN o.o[f] ELSE JsUndefined

\* s.split(", ").filter(Boolean) and a.join(", "), on the strings of the model
SplitCommas(x) ==
  CASE x = "" -> <<>>
    [] x = "bold, warm" -> <<Str("bold"), Str("warm")>>
    [] OTHER -> <<Str(x)>>
JoinCommas(a) ==
  CASE a = <<>> -> ""
    [] a = <<Str("bold"), Str("warm")>> -> "bold, warm"
    [] OTHER -> a[1].s

\* ------------------------------------------------------ migrateContext, whole
BrandKeys ==
  {"name", "tagline", "mission", "voiceCharacteristics", "toneScale", "dos", "donts",
   "keywords", "avoidWords", "voice"}
AudienceKeys ==
  {"jobTitles", "industries", "companySize", "revenueRange", "goals", "values", "fears",
   "objections", "painPoints", "desiredTransformation", "buyingTriggers", "description",
   "desires"}
OfferKeys ==
  {"name", "pitch", "featuresBenefits", "usp", "pricing", "guarantees", "bonuses",
   "caseStudies", "testimonials", "brandStory", "socialProofStats", "personaTypes",
   "details"}
\* types.ts 32-106: the fields declared string; the others are lists, but toneScale
TextKeys ==
  {"name", "tagline", "mission", "voice", "companySize", "revenueRange",
   "desiredTransformation", "description", "pitch", "usp", "pricing", "guarantees",
   "brandStory", "details"}
ToneKeys == {"formalCasual", "seriousHumorous", "respectfulIrreverent"}

DefaultToneScale == Obj([k \in ToneKeys |-> Num(5)])
EmptyOf(k) == IF k \in TextKeys THEN Str("") ELSE Arr(<<>>)

\* App.tsx 113-160, every field
migrateContextFull(ctx) ==
  LET b == Get(ctx, "brand")
      a == Get(ctx, "audience")
      o == Get(ctx, "offer")
      brand(k) ==
        CASE k = "voiceCharacteristics" ->
               Or(Get(b, k), IF Truthy(Get(b, "voice"))
                             THEN Arr(SplitCommas(Get(b, "voice").s)) ELSE Arr(<<>>))
          [] k = "toneScale" -> Or(Get(b, k), DefaultToneScale)
          [] k = "voice" ->
               Or(Or(Get(b, k), Str(JoinCommas(Or(Get(b, "voiceCharacteristics"), Arr(<<>>)).a))),
                  Str(""))
          [] OTHER -> Or(Get(b, k), EmptyOf(k))
      audience(k) ==
        CASE k = "goals" -> Or(Or(Get(a, "goals"), Get(a, "desires")), Arr(<<>>))
          [] k = "desires" -> Or(Or(Get(a, "desires"), Get(a, "goals")), Arr(<<>>))
          [] OTHER -> Or(Get(a, k), EmptyOf(k))
      offer(k) ==
        CASE k = "usp" -> Or(Or(Get(o, "usp"), Get(o, "details")), Str(""))
          [] k = "details" -> Or(Or(Get(o, "details"), Get(o, "usp")), Str(""))
          [] OTHER -> Or(Get(o, k), EmptyOf(k))
  IN  Obj([brand      |-> Obj([k \in BrandKeys |-> brand(k)]),
           audience   |-> Obj([k \in AudienceKeys |-> audience(k)]),
           offer      |-> Obj([k \in OfferKeys |-> offer(k)]),
           isComplete |-> Nullish(Get(ctx, "isComplete"), Bool(TRUE))])

\* objects that hold any subset of `keys`, each key with one of its `values`
ObjectsOver(keys, values) ==
  UNION {{Obj(f) : f \in {g \in [K -> UNION {values[k] : k \in K}] :
                            \A k \in K : g[k] \in values[k]}} : K \in SUBSET keys}

\* partial and legacy profiles: sections and fields missing, a toneScale with
\* one of its three values, the legacy voice / desires / details fields
LegacyBrands ==
  {JsUndefined} \cup
  ObjectsOver({"name", "voice", "voiceCharacteristics", "toneScale"},
              [name |-> {Str(""), Str("Acme")},
               voice |-> {Str("bold, warm")},
               voiceCharacteristics |-> {Arr(<<>>), Arr(<<Str("bold"), Str("warm")>>)},
               toneScale |-> {Obj([formalCasual |-> Num(3), seriousHumorous |-> Num(7),
                                   respectfulIrreverent |-> Num(5)]),
                              Obj([formalCasual |-> Num(3)])}])
LegacyAudiences ==
  {JsUndefined} \cup
  ObjectsOver({"goals", "desires", "companySize"},
              [goals |-> {Arr(<<Str("grow")>>)}, desires |-> {Arr(<<Str("scale")>>)},
               companySize |-> {Str("50")}])
LegacyOffers ==
  {JsUndefined} \cup
  ObjectsOver({"usp", "details", "bonuses"},
              [usp |-> {Str("fast")}, details |-> {Str("d")}, bonuses |-> {Arr(<<Str("b")>>)}])
LegacyContexts ==
  {Obj([brand |-> b, audience |-> a, offer |-> o]) :
     b \in LegacyBrands, a \in LegacyAudiences, o \in LegacyOffers}
  \cup {Obj([brand |-> b, audience |-> a, offer |-> o, isComplete |-> Bool(c)]) :
          b \in LegacyBrands, a \in LegacyAudiences, o \in LegacyOffers, c \in BOOLEAN}

\* the browser session untouched, no store, nothing else running
AppIdle ==
  /\ Mounted /\ dbWorkspaces = {} /\ dbCampaigns = {} /\ dbClock = MaxInitWs
  /\ api = <<>> /\ tabs = <<>> /\ saveLog = <<>> /\ BillingIdle

CalcUnchanged == UNCHANGED <<appVars, api, tabs, saveLog, profiles, edge>>
Applied == calc # <<>> /\ calc[1].pc = "done"

InitMigrate ==
  /\ AppIdle
  /\ \E ctx \in LegacyContexts : calc = <<[fn |-> "migrateContext", pc |-> "input", input |-> ctx]>>

ApplyMigrateContext ==
  /\ calc # <<>> /\ calc[1].fn = "migrateContext" /\ calc[1].pc = "input"
  /\ calc' = <<[fn |-> "migrateContext", pc |-> "done", input |-> calc[1].input,
                output |-> migrateContextFull(calc[1].input)]>>
  /\ CalcUnchanged

SpecMigrate == InitMigrate /\ [][ApplyMigrateContext]_vars

\* --------------------------------- analyzeContext: the payload to a profile
\* apiService.ts 5
toArray(val) == IF val.t = "array" THEN val ELSE Arr(<<>>)

JsThrow == [t |-> "throw"]            \* a TypeError leaves the function

\* arr.map(x => ({ k: x.k || "", ... })): reading a property of null or
\* undefined throws, of any other value that has none gives undefined
MapFields(arr, keys) ==
  IF \E i \in 1..Len(arr.a) : arr.a[i].t \in {"null", "undefined"} THEN JsThrow
  ELSE Arr([i \in 1..Len(arr.a) |-> Obj([k \in keys |-> Or(Get(arr.a[i], k), Str(""))])])

\* part_006 5-10
buildAudienceDescription(audience) ==
  LET titles == IF Get(audience, "jobTitles").t = "array"
                THEN JoinCommas(Get(audience, "jobTitles").a) ELSE ""
      industries == IF Get(audience, "industries").t = "array"
                    THEN JoinCommas(Get(audience, "industries").a) ELSE ""
  IN  IF titles # "" /\ industries # "" THEN Str(titles \o " in " \o industries)
      ELSE Or(Or(Or(Str(titles), Str(industries)), Get(audience, "description")),
              Str("Target audience"))

\* apiService.ts 84-157: the profile made of the response's JSON `data`
analyzeContextProfile(data) ==
  LET b == Get(data, "brand")
      a == Get(data, "audience")
      o == Get(data, "offer")
      voiceCharacteristics == toArray(Get(b, "voice_characteristics"))
      jobTitles == toArray(Get(a, "job_titles"))
      industries == toArray(Get(a, "industries"))
      goals == toArray(Get(a, "goals"))
      usp == Or(Get(o, "usp"), Str(""))
      tone(k) == Nullish(Get(Get(b, "tone_scale"), k), Num(5))
      featuresBenefits == MapFields(toArray(Get(o, "features_benefits")),
                                    {"feature", "benefit", "outcome"})
      caseStudies == MapFields(toArray(Get(o, "case_studies")),
                               {"company", "challenge", "result", "metric"})
      testimonials == MapFields(toArray(Get(o, "testimonials")),
                                {"quote", "author", "role", "company"})
      personaTypes == MapFields(toArray(Get(o, "persona_types")), {"label", "description"})
  IN  IF data.t \in {"null", "undefined"}
         \/ JsThrow \in {featuresBenefits, caseStudies, testimonials, personaTypes}
      THEN JsThrow
      ELSE Obj(
        [brand |-> Obj(
           [name |-> Or(Get(b, "name"), Str("Unknown Brand")),
            tagline |-> Or(Get(b, "tagline"), Str("")),
            mission |-> Or(Get(b, "mission"), Str("")),
            voiceCharacteristics |-> voiceCharacteristics,
            toneScale |-> Obj([formalCasual |-> tone("formal_casual"),
                               seriousHumorous |-> tone("serious_humorous"),
                               respectfulIrreverent |-> tone("respectful_irreverent")]),
            dos |-> toArray(Get(b, "dos")),
            donts |-> toArray(Get(b, "donts")),
            keywords |-> toArray(Get(Get(b, "vocabulary"), "preferred")),
            avoidWords |-> toArray(Get(Get(b, "vocabulary"), "avoid")),
            voice |-> Or(Str(JoinCommas(voiceCharacteristics.a)), Str("Professional"))]),
         audience |-> Obj(
           [jobTitles |-> jobTitles,
            industries |-> industries,
            companySize |-> Or(Get(a, "company_size"), Str("")),
            revenueRange |-> Or(Get(a, "revenue_range"), Str("")),
            goals |-> goals,
            values |-> toArray(Get(a, "values")),
            fears |-> toArray(Get(a, "fears")),
            objections |-> toArray(Get(a, "objections")),
            painPoints |-> toArray(Get(a, "pain_points")),
            desiredTransformation |-> Or(Get(a, "desired_transformation"), Str("")),
            buyingTriggers |-> toArray(Get(a, "buying_triggers")),
            description |-> buildAudienceDescription(
                              Obj([jobTitles |-> jobTitles, industries |-> industries])),
            desires |-> goals]),
         offer |-> Obj(
           [name |-> Or(Get(o, "product_name"), Str("Product")),
            pitch |-> Or(Get(o, "one_liner"), Str("")),
            featuresBenefits |-> featuresBenefits,
            usp |-> usp,
            pricing |-> Or(Get(o, "pricing"), Str("")),
            guarantees |-> Or(Get(o, "guarantees"), Str("")),
            bonuses |-> toArray(Get(o, "bonuses")),
            caseStudies |-> caseStudies,
            testimonials |-> testimonials,
            brandStory |-> IF Get(o, "brand_story").t = "string" THEN Get(o, "brand_story")
                           ELSE Str(""),
            socialProofStats |-> toArray(Get(o, "social_proof_stats")),
            personaTypes |-> personaTypes,
            details |-> usp]),
         isComplete |-> Bool(TRUE)])

\* AI payloads: sections and fields missing, null, or of the wrong type
PayloadBrands ==
  {JsUndefined, JsNull} \cup
  ObjectsOver({"name", "tagline", "voice_characteristics", "tone_scale", "vocabulary"},
              [name |-> {Str("Acme"), JsNull},
               tagline |-> {Str("t"), Num(7)},
               voice_characteristics |-> {Arr(<<Str("bold"), Str("warm")>>), Str("bold")},
               tone_scale |-> {Obj([formal_casual |-> Num(0)]), JsNull},
               vocabulary |-> {Obj([preferred |-> Arr(<<Str("w")>>)])}])
PayloadAudiences ==
  {JsUndefined} \cup
  ObjectsOver({"job_titles", "industries", "company_size"},
              [job_titles |-> {Arr(<<Str("CTO")>>), JsNull},
               industries |-> {Arr(<<Str("SaaS")>>)},
               company_size |-> {Str("50")}])
PayloadOffers ==
  {JsUndefined} \cup
  ObjectsOver({"product_name", "features_benefits", "usp", "brand_story"},
              [product_name |-> {Str("P")},
               features_benefits |-> {Str("x"), Arr(<<Obj([feature |-> Str("f")])>>),
                                      Arr(<<JsNull>>)},
               usp |-> {Str("fast")},
               brand_story |-> {Str("story"), Num(1)}])
Payloads ==
  {Obj([brand |-> b, audience |-> a, offer |-> o]) :
     b \in PayloadBrands, a \in PayloadAudiences, o \in PayloadOffers}

InitAnalyze ==
  /\ AppIdle
  /\ \E data \in Payloads : calc = <<[fn |-> "analyzeContext", pc |-> "input", input |-> data]>>

ApplyAnalyzeContext ==
  /\ calc # <<>> /\ calc[1].fn = "analyzeContext" /\ calc[1].pc = "input"
  /\ calc' = <<[fn |-> "analyzeContext", pc |-> "done", input |-> calc[1].input,
                output |-> analyzeContextProfile(calc[1].input)]>>
  /\ CalcUnchanged

SpecAnalyze == InitAnalyze /\ [][ApplyAnalyzeContext]_vars

\* ------------------------------------------ CampaignView: export to text, JSON
\* A string of several lines is the sequence of its lines (the string split at
\* "\n"), so that a + "\n" + b is the lines of a followed by the lines of b.
\* Body lines are taken not to be lines of the export format itself.
Text(lines) == [t |-> "string", lines |-> lines]
LegacySections == <<"hook", "context", "value", "cta", "signOff">>

RECURSIVE JoinParagraphs(_)
\* parts.join("\n\n"), each part one line
JoinParagraphs(parts) ==
  IF parts = <<>> THEN <<"">>
  ELSE IF Len(parts) = 1 THEN <<parts[1]>>
  ELSE <<parts[1], "">> \o JoinParagraphs(Tail(parts))

\* a helper that reads string bodies only
getEmailBodyOfStrings(email) == IF email.body.t = "string" THEN email.body.lines ELSE <<"">>

\* part_001 160-175: the lines of the body, whatever its stored form
getEmailBody(email) ==
  IF email.body.t = "string" THEN email.body.lines
  ELSE IF email.body.t = "object"
  THEN LET sections == [i \in 1..Len(LegacySections) |-> Get(email.body, LegacySections[i])]
           kept == SelectSeq(sections, Truthy)
       IN  JoinParagraphs([i \in 1..Len(kept) |-> kept[i].s])
  ELSE <<"">>

\* part_001 192: e.dayOffset === 0 ? 'Immediately' : `Day ${e.dayOffset}`
SendTime(dayOffset) == IF dayOffset = 0 THEN <<"Immediately">> ELSE <<"Day", dayOffset>>

Line(kind, content) == [kind |-> kind, content |-> content]
Blank == Line("text", <<"">>)
Separator == Line("separator", <<>>)

\* part_001 190-199: the template of one email, as lines
EmailBlock(e, i) ==
  <<Blank,
    Line("EMAIL", <<i, e.subject.s>>),
    Line("Send Time:", SendTime(e.dayOffset.n)),
    Separator,
    Line("Subject:", <<e.subject.s>>),
    Line("Preview:", <<e.previewText.s>>),
    Blank>>
  \o [j \in 1..Len(getEmailBody(e)) |-> Line("text", <<getEmailBody(e)[j]>>)]
  \o <<Blank, Separator, Blank>>

RECURSIVE Concat(_)
Concat(seqs) == IF seqs = <<>> THEN <<>> ELSE seqs[1] \o Concat(Tail(seqs))

\* JSON.stringify: a property whose value is undefined is left out
JsonStringify(record) ==
  [k \in {f \in DOMAIN record : record[f] # JsUndefined} |-> record[k]]

\* part_001 185-200: the content of the downloaded file
ExportContent(campaign, format) ==
  IF format = "json"
  THEN [name |-> campaign.name,
        emails |-> [i \in 1..Len(campaign.emails) |-> JsonStringify(campaign.emails[i])]]
  ELSE Concat([i \in 1..Len(campaign.emails) |-> EmailBlock(campaign.emails[i], i)])

\* emails as the app makes them (apiService.ts 322-330), and bodies in the
\* sectioned form of older versions
ExportBodies ==
  {Text(<<"">>), Text(<<"Hi", "", "Bye">>),
   Obj([hook |-> Str("h"), cta |-> Str("c"), value |-> Str("")]),
   Obj([hook |-> Str("")])}
ExportEmails ==
  [subject : {Str(""), Str("s1")}, previewText : {Str("p")},
   dayOffset : {Num(d) : d \in 0..MaxDay}, body : ExportBodies]
ExportCampaigns ==
  {[name |-> "n0", emails |-> es] : es \in UNION {[1..n -> ExportEmails] : n \in 0..MaxEmails}}

InitExport ==
  /\ AppIdle
  /\ \E c \in ExportCampaigns : calc = <<[fn |-> "handleExport", pc |-> "input", input |-> c]>>

handleExport(format) ==
  /\ calc # <<>> /\ calc[1].fn = "handleExport" /\ calc[1].pc = "input"
  /\ calc' = <<[fn |-> "handleExport", pc |-> "done", input |-> calc[1].input,
                format |-> format, output |-> ExportContent(calc[1].input, format)]>>
  /\ CalcUnchanged

SpecExport == InitExport /\ [][\E format \in {"txt", "json"} : handleExport(format)]_vars

\* ------------------------- setContext and the workspace list, whole profiles
\* `calc` holds <<session>>, a signed-in session with the workspaces "A" and "B":
\*   input       the profile c that setContext is called with
\*   pc          "input", "set" (setContext was called), "toB" / "toA"
\*               (switchWorkspace awaits loadCampaigns), "onB" / "onA" (it
\*               returned), "failed" (it threw)
\*   context, active, workspaces    AppInner's state, workspaces by id
\*   row         the columns of A's row in the store
\*   saving      the profiles whose saveWorkspaceContext is on its way
\*   saved       "no", or how the last save ended: "saved", "failed"
EmptyObject == Obj([k \in {} |-> JsUndefined])

\* x?.length
LengthOf(x) == IF x.t = "array" THEN Num(Len(x.a)) ELSE JsUndefined

\* part_000 114-133, every field it reads
workspaceToContextFull(w) ==
  LET b == w.brand_context
      a == w.audience_context
      o == w.offer_context
      hasData ==
        \/ Truthy(Get(b, "name")) \/ Truthy(Get(b, "tagline")) \/ Truthy(Get(b, "mission"))
        \/ Truthy(LengthOf(Get(a, "jobTitles"))) \/ Truthy(LengthOf(Get(a, "industries")))
        \/ Truthy(Get(a, "description"))
        \/ Truthy(Get(o, "name")) \/ Truthy(Get(o, "pitch")) \/ Truthy(Get(o, "usp"))
  IN  IF ~hasData THEN JsNull
      ELSE Obj([brand |-> Or(b, EmptyObject), audience |-> Or(a, EmptyObject),
                offer |-> Or(o, EmptyObject), isComplete |-> Bool(TRUE)])

\* App.tsx 230-235: the profile loadWorkspaceData puts in memory
loadWorkspaceDataProfile(w) ==
  LET ctx == workspaceToContextFull(w)
  IN  IF Truthy(ctx) THEN migrateContextFull(ctx) ELSE JsNull

\* App.tsx 382 and part_000 104-108: the three columns a profile is kept in
ContextColumns(c) ==
  [brand_context |-> Get(c, "brand"), audience_context |-> Get(c, "audience"),
   offer_context |-> Get(c, "offer")]

\* { ...o, [k]: v }
With(obj, k, v) == Obj([f \in DOMAIN obj.o \cup {k} |-> IF f = k THEN v ELSE obj.o[f]])

\* the profile with every field at its default
BlankContext == migrateContextFull(EmptyObject)

\* profiles as Onboarding passes them to setContext (225, 261): every field is
\* there and isComplete is true. The description is the one
\* buildAudienceDescription gives, or "" for a profile that was loaded from a
\* row without one and whose audience card was not edited since.
FullContexts ==
  {LET brand == With(With(Get(BlankContext, "brand"), "name", bn), "keywords", kw)
       aud   == With(With(Get(BlankContext, "audience"), "jobTitles", jt), "painPoints", pp)
       offer == With(With(Get(BlankContext, "offer"), "name", on), "pricing", pr)
   IN  Obj([brand      |-> brand,
            audience   |-> With(aud, "description",
                                IF derived THEN buildAudienceDescription(aud) ELSE Str("")),
            offer      |-> offer,
            isComplete |-> Bool(TRUE)]) :
     bn \in {Str(""), Str("Acme")}, kw \in {Arr(<<>>), Arr(<<Str("fast")>>)},
     jt \in {Arr(<<>>), Arr(<<Str("CEO")>>)}, pp \in {Arr(<<>>), Arr(<<Str("churn")>>)},
     on \in {Str(""), Str("Kit")}, pr \in {Str(""), Str("$9")}, derived \in BOOLEAN}

\* the rows before setContext: A holds a brand name only, B a whole profile
RowA == [brand_context |-> Obj([name |-> Str("Acme")]), audience_context |-> EmptyObject,
         offer_context |-> EmptyObject]
RowB == ContextColumns(With(BlankContext, "brand",
                            With(Get(BlankContext, "brand"), "name", Str("Bolt"))))

InitSetContext ==
  /\ AppIdle
  /\ \E c \in FullContexts :
       calc = <<[fn |-> "setContext", pc |-> "input", input |-> c,
                 context |-> loadWorkspaceDataProfile(RowA), active |-> "A",
                 workspaces |-> [id \in {"A", "B"} |-> IF id = "A" THEN RowA ELSE RowB],
                 row |-> RowA, saving |-> {}, saved |-> "no"]>>

Session == calc[1]
InSession == calc # <<>> /\ calc[1].fn = "setContext"

\* App.tsx 372-386 with user and activeWorkspaceId "A"
setContextFull ==
  /\ InSession /\ Session.pc = "input" /\ Session.active = "A"
  /\ LET c == Session.input
     IN  calc' = <<[Session EXCEPT !.pc = "set", !.context = c,
                                   !.saving = {c},
                                   !.workspaces["A"] = ContextColumns(c)]>>
  /\ CalcUnchanged

\* part_000 97-112: the update reaches A's row, or fails and is logged
saveWorkspaceContextDone(ok) ==
  /\ InSession
  /\ \E c \in Session.saving :
       calc' = <<[Session EXCEPT !.saving = {},
                                 !.row = IF ok THEN ContextColumns(c) ELSE Session.row,
                                 !.saved = IF ok THEN "saved" ELSE "failed"]>>
  /\ CalcUnchanged

\* App.tsx 314-320, 230-235: switchWorkspace up to `await loadCampaigns`
switchWorkspaceFull(id) ==
  /\ InSession /\ Session.pc \in {"set", "onB"}
  /\ id # Session.active
  /\ calc' = <<[Session EXCEPT !.pc = IF id = "B" THEN "toB" ELSE "toA",
                                !.context = loadWorkspaceDataProfile(Session.workspaces[id])]>>
  /\ CalcUnchanged

\* App.tsx 236-238: loadCampaigns returns, or throws into 322-324
switchLoadDone(ok) ==
  /\ InSession /\ Session.pc \in {"toB", "toA"}
  /\ calc' = <<[Session EXCEPT
                  !.pc = IF ~ok THEN "failed" ELSE IF Session.pc = "toB" THEN "onB" ELSE "onA",
                  !.active = IF ~ok THEN Session.active
                             ELSE IF Session.pc = "toB" THEN "B" ELSE "A"]>>
  /\ CalcUnchanged

NextSetContext ==
  \/ setContextFull
  \/ \E ok \in BOOLEAN : saveWorkspaceContextDone(ok)
  \/ \E id \in {"A", "B"} : switchWorkspaceFull(id)
  \/ \E ok \in BOOLEAN : switchLoadDone(ok)

SpecSetContext == InitSetContext /\ [][NextSetContext]_vars

\* ------------------------------- two sessions run the initial load together
\* `tabs[i]` is session i of User1, in the initial load of App.tsx 260-281:
\*   pc          the await the load is suspended at, or "done"
\*   canonical, dups    cleanupDuplicateDefaultWorkspaces' locals
\*   clean       no request of the load has failed so far
\*   ws          the workspace loadWorkspaceData was called with
\*   context, campaigns, dataLoading, workspaces, activeWorkspaceId   AppInner's state
\* The store is the one both sessions share.
LoadingSession ==
  [pc |-> "getDefault", canonical |-> NoWs, dups |-> <<>>, clean |-> TRUE, ws |-> NoWs,
   context |-> NoContext, campaigns |-> <<>>, dataLoading |-> TRUE,
   workspaces |-> <<>>, activeWorkspaceId |-> NoWs]

\* both sessions have resolved their auth as User1; the user has no workspace
InitTwoLoads ==
  /\ Mounted /\ api = <<>> /\ saveLog = <<>> /\ BillingIdle /\ CalcIdle
  /\ dbWorkspaces = {} /\ dbCampaigns = {} /\ dbClock = MaxInitWs
  /\ tabs = [i \in Tabs |-> LoadingSession]

TwoLoadsUnchanged ==
  UNCHANGED <<authVars, memVars, loadedForUserId, timerArmed, analyzedData, sessionStore,
              unloaded, clock, tasks, requests, ops, api, saveLog, profiles, edge, calc>>

At(i, pc) == tabs[i].pc = pc
\* the load of session i ends: App.tsx 276-280
Ended(t) == [t EXCEPT !.pc = "done", !.dataLoading = FALSE]

\* part_000 22-33 in session i
TabGetDefaultQuery(i, ok) ==
  /\ At(i, "getDefault")
  /\ LET rows == IF ok THEN DefaultRows(User1) ELSE <<>>
     IN  tabs' = [tabs EXCEPT ![i].pc = IF Len(rows) > 0 THEN "cleanup" ELSE "insertDefault",
                              ![i].clean = tabs[i].clean /\ ok]
  /\ UNCHANGED storeVars
  /\ TwoLoadsUnchanged

\* part_000 36-50 in session i
TabInsertDefault(i, ok) ==
  /\ At(i, "insertDefault")
  /\ IF ok
     THEN /\ dbClock < MaxInitWs + MaxCreated
          /\ dbWorkspaces' = dbWorkspaces \cup {InsertedWs(TRUE, "My Brand")}
          /\ dbClock' = dbClock + 1
          /\ tabs' = [tabs EXCEPT ![i].pc = "cleanup"]
     ELSE /\ tabs' = [tabs EXCEPT ![i] = Ended([tabs[i] EXCEPT !.clean = FALSE])]
          /\ UNCHANGED <<dbWorkspaces, dbClock>>
  /\ UNCHANGED dbCampaigns
  /\ TwoLoadsUnchanged

\* part_000 56-66 in session i
TabCleanupQuery(i, ok) ==
  /\ At(i, "cleanup")
  /\ LET defaults == DefaultRows(User1)
     IN  IF ~ok \/ Len(defaults) <= 1 \/ Len(Duplicates(defaults)) = 0
         THEN tabs' = [tabs EXCEPT ![i].pc = "list", ![i].clean = tabs[i].clean /\ ok]
         ELSE tabs' = [tabs EXCEPT ![i].pc = "cleanupDup",
                                   ![i].canonical = Canonical(defaults).id,
                                   ![i].dups = Duplicates(defaults)]
  /\ UNCHANGED storeVars
  /\ TwoLoadsUnchanged

\* part_000 68-88 in session i
TabCleanupDup(i, ok) ==
  /\ At(i, "cleanupDup")
  /\ LET t   == tabs[i]
         dup == Head(t.dups)
     IN  IF DupHasData(dup)
         THEN /\ dbWorkspaces' =
                   IF ok THEN {IF w.id = dup.id
                               THEN [w EXCEPT !.is_default = FALSE, !.name = DemotedName(dup)]
                               ELSE w : w \in dbWorkspaces}
                   ELSE dbWorkspaces
              /\ UNCHANGED dbCampaigns
              /\ tabs' = [tabs EXCEPT ![i] = NextDup(t, ok)]
         ELSE /\ dbCampaigns' =
                   IF ok THEN {IF r.workspace_id = dup.id
                               THEN [r EXCEPT !.workspace_id = t.canonical]
                               ELSE r : r \in dbCampaigns}
                   ELSE dbCampaigns
              /\ UNCHANGED dbWorkspaces
              /\ tabs' = [tabs EXCEPT ![i].pc = "cleanupDelete", ![i].clean = t.clean /\ ok]
  /\ UNCHANGED dbClock
  /\ TwoLoadsUnchanged

\* part_000 89-92 in session i
TabCleanupDelete(i, ok) ==
  /\ At(i, "cleanupDelete")
  /\ LET dup == Head(tabs[i].dups)
     IN  dbWorkspaces' = IF ok THEN {w \in dbWorkspaces : w.id # dup.id} ELSE dbWorkspaces
  /\ tabs' = [tabs EXCEPT ![i] = NextDup(tabs[i], ok)]
  /\ UNCHANGED <<dbCampaigns, dbClock>>
  /\ TwoLoadsUnchanged

\* App.tsx 267-275 in session i
TabListWs(i, ok) ==
  /\ At(i, "list")
  /\ LET all == listWorkspaces(User1)
     IN  tabs' = [tabs EXCEPT ![i] =
           IF ~ok THEN Ended([@ EXCEPT !.clean = FALSE])
           ELSE IF Len(all) = 0 THEN Ended([@ EXCEPT !.workspaces = all])
           ELSE [@ EXCEPT !.workspaces = all, !.context = ProfileOf(DefaultOf(all)),
                          !.ws = DefaultOf(all).id, !.pc = "load"]]
  /\ UNCHANGED storeVars
  /\ TwoLoadsUnchanged

\* App.tsx 236-238, 276-280 in session i
TabLoadCampaignsDone(i, ok) ==
  /\ At(i, "load")
  /\ tabs' = [tabs EXCEPT ![i] =
       IF ok THEN Ended([@ EXCEPT !.campaigns = loadCampaigns(User1, tabs[i].ws),
                                  !.activeWorkspaceId = tabs[i].ws])
       ELSE Ended([@ EXCEPT !.clean = FALSE])]
  /\ UNCHANGED storeVars
  /\ TwoLoadsUnchanged

NextTwoLoads ==
  \E i \in Tabs, ok \in BOOLEAN :
    \/ TabGetDefaultQuery(i, ok)
    \/ TabInsertDefault(i, ok)
    \/ TabCleanupQuery(i, ok)
    \/ TabCleanupDup(i, ok)
    \/ TabCleanupDelete(i, ok)
    \/ TabListWs(i, ok)
    \/ TabLoadCampaignsDone(i, ok)

SpecTwoLoads == InitTwoLoads /\ [][NextTwoLoads]_vars

\* ------------------------------ getOrCreateDefaultWorkspace, call after call
\* `calc` holds <<run>>: sequential calls of getOrCreateDefaultWorkspace(User1)
\* against a store that holds any rows.
\*   pc       "query" / "insert": the await the call is suspended at; "idle"
\*            between calls
\*   before   the table when the running call started
\*   log      one entry per finished call: the table before and after it, and
\*            what it returned or threw
InitGetOrCreate ==
  /\ Mounted /\ api = <<>> /\ tabs = <<>> /\ saveLog = <<>> /\ BillingIdle
  /\ dbWorkspaces \in InitialWorkspaces /\ dbCampaigns = {} /\ dbClock = MaxInitWs
  /\ calc = <<[fn |-> "getOrCreateDefaultWorkspace", pc |-> "idle",
               before |-> dbWorkspaces, log |-> <<>>]>>

GetOrCreateUnchanged ==
  UNCHANGED <<authVars, memVars, loadedForUserId, timerArmed, analyzedData, sessionStore,
              unloaded, dbCampaigns, clock, tasks, requests, ops, api, tabs, saveLog,
              profiles, edge>>

Run == calc[1]
Running(pc) == calc # <<>> /\ calc[1].fn = "getOrCreateDefaultWorkspace" /\ calc[1].pc = pc

\* the call ends with `outcome`
CallEnds(outcome, table) ==
  calc' = <<[Run EXCEPT !.pc = "idle",
                        !.log = Append(Run.log, [before |-> Run.before, after |-> table,
                                                 outcome |-> outcome])]>>

\* the caller calls it (again)
GetOrCreateCall ==
  /\ Running("idle") /\ Len(Run.log) < MaxCalls
  /\ calc' = <<[Run EXCEPT !.pc = "query", !.before = dbWorkspaces]>>
  /\ UNCHANGED storeVars
  /\ GetOrCreateUnchanged

\* part_000 22-33: `const { data: rows } = await ...limit(1)`; the error of the
\* query is not read, and rows is null when it failed
GetOrCreateQuery(ok) ==
  /\ Running("query")
  /\ LET rows == IF ok THEN DefaultRows(User1) ELSE <<>>
     IN  IF Len(rows) > 0
         THEN CallEnds(Returned(rows[1]), dbWorkspaces)
         ELSE calc' = <<[Run EXCEPT !.pc = "insert"]>>
  /\ UNCHANGED storeVars
  /\ GetOrCreateUnchanged

\* part_000 36-50: insert ... select().single(); createErr is thrown
GetOrCreateInsert(ok) ==
  /\ Running("insert")
  /\ IF ok
     THEN /\ dbClock < MaxInitWs + MaxCreated
          /\ dbWorkspaces' = dbWorkspaces \cup {InsertedWs(TRUE, "My Brand")}
          /\ dbClock' = dbClock + 1
          /\ CallEnds(Returned(InsertedWs(TRUE, "My Brand")), dbWorkspaces')
     ELSE /\ UNCHANGED <<dbWorkspaces, dbClock>>
          /\ CallEnds(Thrown(Error("Failed to create workspace")), dbWorkspaces)
  /\ GetOrCreateUnchanged

NextGetOrCreate ==
  \/ GetOrCreateCall
  \/ \E ok \in BOOLEAN : GetOrCreateQuery(ok)
  \/ \E ok \in BOOLEAN : GetOrCreateInsert(ok)

SpecGetOrCreate == InitGetOrCreate /\ [][NextGetOrCreate]_vars

\* ------------------- cleanupDuplicateDefaultWorkspaces on whole workspace rows
\* `calc` holds <<cleanup>>, the loop body of part_000 68-93 for one duplicate:
\*   dup      the duplicate default, its three context columns as stored
\*   pc       "test" (the body starts), "delete" (the campaigns update was
\*            awaited, the delete is next), "done"
\*   hasData  what the test of line 69 gave, once made
\*   fate     "default" (the row is as it was), "demoted" or "deleted"

\* part_000 69: dup.brand_context?.name || dup.audience_context?.jobTitles?.length
cleanupHasData(dup) ==
  Truthy(Or(Get(dup.brand_context, "name"), LengthOf(Get(dup.audience_context, "jobTitles"))))

\* duplicate defaults: the row getOrCreateDefaultWorkspace inserts, and rows
\* with each of the fields the two tests read either empty or set
DuplicateRows ==
  {[brand_context |-> EmptyObject, audience_context |-> EmptyObject,
    offer_context |-> EmptyObject]}
  \cup
  {[brand_context    |-> Obj([name |-> bn, tagline |-> bt, mission |-> bm]),
    audience_context |-> Obj([jobTitles |-> aj, industries |-> ai, description |-> ad]),
    offer_context    |-> Obj([name |-> on, pitch |-> op, usp |-> ou])] :
     bn \in {Str(""), Str("Acme")}, bt \in {Str(""), Str("t")}, bm \in {Str(""), Str("m")},
     aj \in {Arr(<<>>), Arr(<<Str("CEO")>>)}, ai \in {Arr(<<>>), Arr(<<Str("SaaS")>>)},
     ad \in {Str(""), Str("founders")},
     on \in {Str(""), Str("Kit")}, op \in {Str(""), Str("p")}, ou \in {Str(""), Str("fast")}}

InitCleanup ==
  /\ AppIdle
  /\ \E dup \in DuplicateRows :
       calc = <<[fn |-> "cleanupDuplicateDefaultWorkspaces", pc |-> "test", dup |-> dup,
                 hasData |-> FALSE, fate |-> "default"]>>

Cleanup == calc[1]
InCleanup(pc) ==
  calc # <<>> /\ calc[1].fn = "cleanupDuplicateDefaultWorkspaces" /\ calc[1].pc = pc

\* part_000 69-86: the test, then the demoting update or the update that moves
\* the campaigns; neither result is read
CleanupDupRow(ok) ==
  /\ InCleanup("test")
  /\ calc' = <<IF cleanupHasData(Cleanup.dup)
               THEN [Cleanup EXCEPT !.pc = "done", !.hasData = TRUE,
                                    !.fate = IF ok THEN "demoted" ELSE "default"]
               ELSE [Cleanup EXCEPT !.pc = "delete", !.hasData = FALSE]>>
  /\ CalcUnchanged

\* part_000 87-92: the delete of the duplicate
CleanupDeleteRow(ok) ==
  /\ InCleanup("delete")
  /\ calc' = <<[Cleanup EXCEPT !.pc = "done",
                               !.fate = IF ok THEN "deleted" ELSE "default"]>>
  /\ CalcUnchanged

NextCleanup ==
  \E ok \in BOOLEAN : CleanupDupRow(ok) \/ CleanupDeleteRow(ok)

SpecCleanup == InitCleanup /\ [][NextCleanup]_vars

\* ================================================================ claims

\* the profile of one workspace beside the activeWorkspaceId (and the campaign
\* list, set in the same step) of another: the active workspace is listed and
\* the profile in memory is not the one loadWorkspaceData shows for it
MixedWorkspaceState ==
  /\ user # NoUser
  /\ \E w \in Range(workspaces) : w.id = activeWorkspaceId /\ context # ProfileOf(w)

SwitchLoadDone(t, ok) == t.kind = "load" /\ t.origin = "switch" /\ LoadCampaignsDone(t, ok)

\* C1: switchWorkspace replaces the profile and the campaign list atomically:
\* neither the step that starts a switch nor the step in which its load returns
\* or fails leaves the profile of one workspace beside the campaign list and
\* activeWorkspaceId of another.
C1_SwitchIsAtomic ==
  [][(\/ \E ws \in Listed : switchWorkspace(ws)
      \/ \E t \in tasks, ok \in BOOLEAN : SwitchLoadDone(t, ok))
     => ~MixedWorkspaceState']_vars

\* C2: workspaces isolate their campaigns: in an authenticated session with no
\* save on its way, no campaign of the in-memory list is stored under a
\* workspace other than the active one, whose list it is shown in.
C2_WorkspacesIsolateCampaigns ==
  (user # NoUser /\ activeWorkspaceId # NoWs /\ requests = {})
    => \A c \in Range(campaigns) : \A row \in dbCampaigns :
         row.id = c.id => row.workspace_id = activeWorkspaceId

\* C3: once the delete request of deleteCampaign(id) has completed, the store
\* holds no row with that id, as memory holds no campaign with it.
C3_DeleteRemovesFromBoth ==
  [][\A r \in requests, ok \in BOOLEAN :
       (r.kind = "deleteCampaignFromDb" /\ RequestDone(r, ok))
         => /\ r.id \notin CampaignIds'
            /\ \A row \in dbCampaigns' : row.id # r.id]_vars

OneDefault(rows) == Cardinality({w \in rows : w.user_id = User1 /\ w.is_default}) = 1

InitialLoadDone(t) ==
  t.kind = "load" /\ t.origin = "init" /\ t.clean /\ LoadCampaignsDone(t, TRUE)

\* C4: when the authenticated initial load completes and none of its requests
\* failed, the user has exactly one default workspace, whatever the store held
\* before, and it is the active workspace.
C4_OneDefaultAfterLoad ==
  [][\A t \in tasks : InitialLoadDone(t)
       => /\ OneDefault(dbWorkspaces')
          /\ \E w \in dbWorkspaces' : w.is_default /\ w.id = activeWorkspaceId']_vars

\* a state after a load that met several defaults: one was demoted and renamed,
\* the load is over and a workspace is active
C4_Witness ==
  /\ ~dataLoading /\ tasks = {} /\ user # NoUser /\ activeWorkspaceId # NoWs
  /\ \E w \in dbWorkspaces : w.name = "My Brand (date)" /\ ~w.is_default
  /\ \E w \in dbWorkspaces : w.is_default /\ w.id = activeWorkspaceId

\* what the next anonymous page load should show of a stored item
Restored(item) ==
  [context   |-> IF IsNull(item.context) THEN NoContext ELSE migrateContext(item.context),
   campaigns |-> item.campaigns]

\* C5: the anonymous round trip: when an anonymous page load reads session
\* storage, memory holds the profile (migrated) and the campaigns the storage
\* held when the page was left.
C5_AnonymousRoundTrip ==
  [][(HasItem(unloaded) /\ ~IsNull(unloaded.context) /\ AuthResolved(NoUser))
       => context' = Restored(unloaded).context /\ campaigns' = Restored(unloaded).campaigns]_vars

\* a step in which setContext, addCampaign, updateCampaign or deleteCampaign runs
DataChange ==
  \/ handleConfirm
  \/ \E updated \in Profiles : ~IsNull(context) /\ handleSaveEdit(updated)
  \/ \E t \in tasks : GenerateDone(t, TRUE)
  \/ \E id \in CampaignIds : ViewUpdateEmail(id)
  \/ \E id \in CampaignIds : DashboardDelete(id)

\* C6: the persistence target follows the mode: a data change sends no write to
\* the hosted tables and is written to session storage while no user is signed
\* in; it sends a write to the hosted tables and is not written to session
\* storage while a user is signed in.
C6_TargetFollowsMode ==
  [][DataChange =>
       IF user = NoUser
       THEN requests' = requests /\ sessionStore' = [context |-> context', campaigns |-> campaigns']
       ELSE requests' # requests /\ sessionStore' = sessionStore]_vars

\* C8: a failed operation leaves the previous state unchanged: a failed analysis
\* the draft and the profile, a failed generation the campaign list, a failed
\* store write the profile and the campaign list of before the operation.
C8_FailureLeavesStateUnchanged ==
  [][/\ \A t \in tasks, result \in Profiles :
          AnalysisDone(t, FALSE, result)
            => analyzedData' = analyzedData /\ context' = context
     /\ \A t \in tasks : GenerateDone(t, FALSE) => campaigns' = campaigns
     /\ \A r \in requests : RequestDone(r, FALSE)
          => context' = r.before.context /\ campaigns' = r.before.campaigns]_vars

\* C9: loading never lasts forever: the safety timer is pending whenever
\* dataLoading is true, and dataLoading always becomes false again, whether or
\* not the loads return.
C9_LoadingEnds ==
  /\ [](dataLoading => timerArmed)
  /\ (dataLoading ~> ~dataLoading)

\* a load started by handleCreateWorkspace has failed and left dataLoading true
C9_Witness ==
  /\ dataLoading /\ timerArmed /\ tasks = {} /\ ~authLoading /\ user # NoUser
  /\ Len(workspaces) > 1

\* C7: a response with status 429 reaches the caller as the RateLimitError that
\* carries the body's detail, or the default message when there is none,
\* whichever API operation was called.
C7_RateLimitReported ==
  (api # <<>> /\ api[1].pc = "done" /\ api[1].status = 429)
    => api[1].outcome =
         Thrown([name |-> "RateLimitError",
                 message |-> OrElse(api[1].detail, DefaultRateLimitMessage)])

\* the row a save request asks the store to hold
SavedRow(r) ==
  [id |-> r.campaign.id, user_id |-> r.user, workspace_id |-> r.ws,
   name |-> r.campaign.name, emails |-> r.campaign.emails]

\* C10: last write wins: once saves of a campaign id have reached the store, the
\* store holds one row for that id and it is, column for column, the content of
\* the save that arrived last; no arrived save is merged or rejected.
C10_LastWriteWins ==
  saveLog # <<>> =>
    LET last == saveLog[Len(saveLog)]
    IN  {row \in dbCampaigns : row.id = last.campaign.id} = {SavedRow(last)}

\* the two sessions have saved different edits of the same stale campaign, the
\* name first and the emails last: the stored row has lost the first edit
C10_Witness ==
  /\ Len(saveLog) >= 2
  /\ LET first == saveLog[Len(saveLog) - 1]
         last  == saveLog[Len(saveLog)]
     IN  /\ first.tab # last.tab
         /\ first.campaign.name = "n1" /\ first.campaign.emails = "e0"
         /\ last.campaign.name = "n0" /\ last.campaign.emails = "e1"
         /\ \E row \in dbCampaigns :
              row.id = last.campaign.id /\ row.name = "n0" /\ row.emails = "e1"

StatusOf(table) == [u \in DOMAIN table |-> table[u].subscription_status]

\* C11: subscription_status changes only in a step of the webhook handling a
\* request whose signature has verified (made with the webhook secret over the
\* request's body); a request with a missing or an invalid signature is
\* answered 400; no step of create-checkout changes subscription_status.
C11_StatusNeedsVerifiedSignature ==
  /\ [][StatusOf(profiles') # StatusOf(profiles)
          => \E r \in edge :
               /\ r.fn = "stripe-webhook"
               /\ r.signature # NoSignature
               /\ r.signature.secret = WebhookSecret /\ r.signature.body = r.event
               /\ WebhookHandle(r, TRUE)]_vars
  /\ [](\A r \in edge :
          (/\ r.fn = "stripe-webhook"
           /\ \/ r.signature = NoSignature
              \/ r.signature.secret # WebhookSecret
              \/ r.signature.body # r.event)
            => r.pc = "received" \/ (r.pc = "done" /\ r.response = 400))

\* a signed checkout.session.completed has made the user premium, after the
\* user's create-checkout had saved the customer id
C11_Witness ==
  /\ profiles[User1].subscription_status = "premium"
  /\ \E r \in edge : r.fn = "stripe-webhook" /\ r.pc = "done" /\ r.response = 200

\* the section `sec` of migrateContext's result, against the same section of
\* its input: every key is there; a key the input holds keeps its value; a key
\* the input lacks is "" or [] or, for a legacy alias, the value of its alias
SectionMigrated(inSec, outSec, keys, alias) ==
  /\ outSec.t = "object" /\ DOMAIN outSec.o = keys
  /\ \A k \in keys \ {"toneScale"} :
       IF Get(inSec, k) # JsUndefined THEN outSec.o[k] = Get(inSec, k)
       ELSE \/ outSec.o[k] = EmptyOf(k)
            \/ k \in DOMAIN alias /\ Get(inSec, alias[k]) # JsUndefined

\* toneScale holds its three values, the given ones kept, the missing ones 5
ToneScaleMigrated(inBrand, outBrand) ==
  LET given == Get(inBrand, "toneScale")
      tone  == outBrand.o["toneScale"]
  IN  /\ tone.t = "object" /\ DOMAIN tone.o = ToneKeys
      /\ \A k \in ToneKeys :
           tone.o[k] = IF Get(given, k) # JsUndefined THEN Get(given, k) ELSE Num(5)

\* C12: migrateContext of any partial or legacy profile returns every field of
\* the three sections, text "" and lists [] where the input has none, a given
\* field kept, the three toneScale values 5 where not given, isComplete true
\* unless given.
C12_MigrateFillsDefaults ==
  (Applied /\ calc[1].fn = "migrateContext") =>
    LET in  == calc[1].input
        out == calc[1].output
    IN  /\ SectionMigrated(Get(in, "brand"), out.o["brand"], BrandKeys,
                           [voice |-> "voiceCharacteristics", voiceCharacteristics |-> "voice"])
        /\ SectionMigrated(Get(in, "audience"), out.o["audience"], AudienceKeys,
                           [goals |-> "desires", desires |-> "goals"])
        /\ SectionMigrated(Get(in, "offer"), out.o["offer"], OfferKeys,
                           [usp |-> "details", details |-> "usp"])
        /\ ToneScaleMigrated(Get(in, "brand"), out.o["brand"])
        /\ out.o["isComplete"] = Nullish(Get(in, "isComplete"), Bool(TRUE))

\* the payload key each text field of a section is read from
PayloadTextKey ==
  [brand    |-> [name |-> "name", tagline |-> "tagline", mission |-> "mission"],
   audience |-> [companySize |-> "company_size", revenueRange |-> "revenue_range",
                 desiredTransformation |-> "desired_transformation"],
   offer    |-> [name |-> "product_name", pitch |-> "one_liner", usp |-> "usp",
                 pricing |-> "pricing", guarantees |-> "guarantees",
                 brandStory |-> "brand_story"]]

SectionKeys == [brand |-> BrandKeys, audience |-> AudienceKeys, offer |-> OfferKeys]

\* C13: whenever analyzeContext returns a profile, each list field of it is an
\* array, and each text field whose payload key is absent is the empty string.
C13_AnalyzeDefaultsEmpty ==
  (Applied /\ calc[1].fn = "analyzeContext" /\ calc[1].output.t = "object") =>
    \A sec \in {"brand", "audience", "offer"} :
      LET inSec  == Get(calc[1].input, sec)
          outSec == calc[1].output.o[sec]
      IN  /\ \A k \in SectionKeys[sec] \ (TextKeys \cup {"toneScale"}) : outSec.o[k].t = "array"
          /\ \A k \in DOMAIN PayloadTextKey[sec] :
               Get(inSec, PayloadTextKey[sec][k]) = JsUndefined => outSec.o[k] = Str("")

\* what a reader finds in the text export: the lines numbered `from`..`to` are
\* one entry, its header first
TxtEntry(lines, from, to) ==
  [subject     |-> lines[from + 3].content[1],
   header      |-> lines[from].content[2],
   previewText |-> lines[from + 4].content[1],
   dayOffset   |-> IF lines[from + 1].content = <<"Immediately">> THEN 0
                   ELSE lines[from + 1].content[2],
   body        |-> [j \in 1..(to - from - 8) |-> lines[from + 5 + j].content[1]]]

\* the entries of the text export, in order: one per EMAIL header line, up to
\* the line before the blank line that opens the next entry
TxtEntries(lines) ==
  LET heads == {i \in 1..Len(lines) : lines[i].kind = "EMAIL"}
      nth(n) == CHOOSE i \in heads : Cardinality({h \in heads : h < i}) = n - 1
      last(n) == IF n = Cardinality(heads) THEN Len(lines) ELSE nth(n + 1) - 2
  IN  [n \in 1..Cardinality(heads) |-> TxtEntry(lines, nth(n), last(n))]

\* the lines of a body: those of the string, or the non-empty sections of the
\* older form in their order, an empty line between two of them
BodyLines(body) ==
  IF body.t = "string" THEN body.lines
  ELSE LET present == {i \in 1..Len(LegacySections) :
                        /\ LegacySections[i] \in DOMAIN body.o
                        /\ body.o[LegacySections[i]].s # ""}
           nth(n) == CHOOSE i \in present : Cardinality({j \in present : j < i}) = n - 1
       IN  IF present = {} THEN <<"">>
           ELSE [n \in 1..(2 * Cardinality(present) - 1) |->
                   IF n % 2 = 1 THEN body.o[LegacySections[nth((n + 1) \div 2)]].s ELSE ""]

\* what the email itself holds of the four
EmailEntry(e) ==
  [subject |-> e.subject.s, previewText |-> e.previewText.s, dayOffset |-> e.dayOffset.n,
   body |-> BodyLines(e.body)]

Shows(w) ==
  /\ activeWorkspaceId = w.id
  /\ context = ProfileOf(w)
  /\ campaigns = loadCampaigns(user, w.id)

LastLoadDone(t) == t.kind = "load" /\ LoadCampaignsDone(t, TRUE) /\ tasks' = {}

\* C15: overlapping workspace loads converge: when a load returns and no load,
\* create or delete is pending after it, the profile, the campaign list and
\* activeWorkspaceId of the signed-in session all belong to one workspace.
C15_LoadsConverge ==
  [][\A t \in tasks : (LastLoadDone(t) /\ user' # NoUser) => Shows(t.ws)']_vars


\* the session is anonymous and nothing it started is still on its way
SignedOutAndSettled == ~authLoading /\ user = NoUser /\ tasks = {} /\ requests = {}

\* C16: with the loads as the only source of data (an anonymous session of this
\* specification creates none), a session that is signed out with every request
\* completed holds no profile, no campaign, no workspace and no
\* activeWorkspaceId, and session storage holds no profile and no campaign.
C16_SignOutLeavesNothing ==
  SignedOutAndSettled
    => /\ context = NoContext /\ campaigns = <<>>
       /\ workspaces = <<>> /\ activeWorkspaceId = NoWs
       /\ sessionStore = [context |-> NoContext, campaigns |-> <<>>]


\* a row holds profile data when loading it gives a profile (workspaceToContext)
HoldsProfile(w) == ~IsNull(workspaceToContext(w))

\* the ids of the user's campaigns that some workspace of the user lists
ListedCampaigns(u) ==
  {r.id : r \in {x \in dbCampaigns :
                   x.user_id = u /\ \E w \in dbWorkspaces : w.user_id = u /\ w.id = x.workspace_id}}

CleanupStep(t, ok) == CleanupDup(t, ok) \/ CleanupDelete(t, ok)

\* C17: in every step of cleanupDuplicateDefaultWorkspaces the canonical row is
\* the oldest default, it and every non-default row stay as they are, and the
\* campaigns the user's workspaces list are the same before and after; a
\* duplicate that holds profile data is demoted when its update succeeds, and a
\* duplicate is deleted only when no campaign is stored under it any more.
C17_CleanupKeepsData ==
  [][\A t \in tasks, ok \in BOOLEAN :
       /\ CleanupStep(t, ok)
            => /\ \A w \in dbWorkspaces :
                    (w.user_id = t.user /\ w.is_default) =>
                      \E c \in dbWorkspaces : c.id = t.canonical /\ c.created_at <= w.created_at
               /\ \A w \in dbWorkspaces :
                    (w.id = t.canonical \/ ~w.is_default) => w \in dbWorkspaces'
               /\ ListedCampaigns(t.user)' = ListedCampaigns(t.user)
       /\ (CleanupDup(t, TRUE) /\ HoldsProfile(Head(t.dups)))
            => \E w \in dbWorkspaces' :
                 /\ w.id = Head(t.dups).id /\ ~w.is_default
                 /\ w.brand_context = Head(t.dups).brand_context
       /\ CleanupDelete(t, TRUE)
            => \A r \in dbCampaigns : r.workspace_id # Head(t.dups).id]_vars


ActiveIsListed ==
  activeWorkspaceId = NoWs \/ \E w \in Range(workspaces) : w.id = activeWorkspaceId

\* C18: in every state of an authenticated session activeWorkspaceId is null or
\* the id of a workspace of the in-memory workspace list.
C18_ActiveWorkspaceIsListed == (~authLoading /\ user # NoUser) => ActiveIsListed


\* the load handleDeleteWorkspace starts for w: the profile is set, loadCampaigns awaited
LoadStarted(w, profile, pending) ==
  /\ profile = ProfileOf(w)
  /\ \E t \in pending : t.kind = "load" /\ t.origin = "delete" /\ t.ws = w

DeleteLoadDone(t) == t.kind = "load" /\ t.origin = "delete" /\ LoadCampaignsDone(t, TRUE)

\* C19: handleDeleteWorkspace(w). When the store delete succeeds, the list
\* afterwards is the list without w; if w was active and others remain, the load
\* of the default (else the first remaining) workspace is started, and when it
\* returns memory shows that workspace; if w was not active, the profile, the
\* campaign list and activeWorkspaceId are unchanged. When the store delete
\* fails, the list is unchanged.
C19_DeleteWorkspace ==
  [][\A t \in tasks :
       /\ (t.kind = "deleteWs" /\ DeleteWorkspaceDone(t, TRUE))
            => /\ workspaces' = SelectSeq(workspaces, LAMBDA w : w.id # t.id)
               /\ (activeWorkspaceId = t.id /\ Len(workspaces') > 0)
                    => LoadStarted(DefaultOf(workspaces'), context', tasks')
               /\ activeWorkspaceId # t.id
                    => UNCHANGED <<context, campaigns, activeWorkspaceId>>
       /\ (t.kind = "deleteWs" /\ DeleteWorkspaceDone(t, FALSE))
            => UNCHANGED workspaces
       /\ DeleteLoadDone(t) => Shows(t.ws)']_vars


\* C20: setContext(c) with the active workspace A puts c's brand, audience and
\* offer into A's entry of the workspace list; after switching to B and back to
\* A the profile shown is migrateContext(c); and when the save has succeeded
\* A's row in the store holds c's brand, audience and offer.
C20_SetContextReachesTheList ==
  InSession =>
    /\ Session.pc # "input" => Session.workspaces["A"] = ContextColumns(Session.input)
    /\ Session.pc = "onA" => Session.context = migrateContextFull(Session.input)
    /\ Session.saved = "saved" => Session.row = ContextColumns(Session.input)


BothLoadsDone == \A i \in Tabs : tabs[i].pc = "done" /\ tabs[i].clean

DefaultsIn(table) == {w \in table : w.user_id = User1 /\ w.is_default}
OldestIn(rows) == CHOOSE w \in rows : \A v \in rows : w.created_at <= v.created_at

\* what the claim says of one finished call
CallAsClaimed(call) ==
  IF DefaultsIn(call.before) # {}
  THEN /\ call.after = call.before
       /\ ~call.outcome.thrown /\ call.outcome.value = OldestIn(DefaultsIn(call.before))
  ELSE ~call.outcome.thrown =>
         /\ \E w \in call.after :
              /\ call.after = call.before \cup {w} /\ w \notin call.before
              /\ w.name = "My Brand" /\ w.is_default /\ w.brand_context = EmptyJson
              /\ call.outcome.value = w

\* C22: getOrCreateDefaultWorkspace with 0, 1 or several defaults: with a
\* default in the table the call returns the oldest one and inserts nothing;
\* with none, a call that returns has inserted exactly one default named
\* 'My Brand' with empty contexts and returns it; two calls, one after the
\* other, return the same workspace and insert at most one row between them.
C22_GetOrCreateDefault ==
  (calc # <<>> /\ calc[1].fn = "getOrCreateDefaultWorkspace") =>
    /\ \A k \in 1..Len(Run.log) : CallAsClaimed(Run.log[k])
    /\ (Len(Run.log) >= 2 /\ ~Run.log[1].outcome.thrown /\ ~Run.log[2].outcome.thrown)
         => /\ Run.log[1].outcome.value = Run.log[2].outcome.value
            /\ Cardinality(Run.log[2].after \ Run.log[1].before) <= 1


LoadsAsProfile(row) == workspaceToContextFull(row) # JsNull

\* C23: cleanupDuplicateDefaultWorkspaces deletes no duplicate that
\* workspaceToContext loads as a profile, and its test for data gives what
\* workspaceToContext's test gives.
C23_CleanupAgreesWithLoad ==
  (calc # <<>> /\ calc[1].fn = "cleanupDuplicateDefaultWorkspaces") =>
    /\ Cleanup.fate = "deleted" => ~LoadsAsProfile(Cleanup.dup)
    /\ Cleanup.pc # "test" => (Cleanup.hasData <=> LoadsAsProfile(Cleanup.dup))

============================================================================
